---------------------------- MODULE Spec2Model ----------------------------
(***************************************************************************)
(* A model of the fakechip audio mixer (package audio).                    *)
(*                                                                         *)
(* The newest revision of the mixer (src/unnamed/part_000) is the one      *)
(* modelled: NewMixer, Start (the control loop), tick, startPair (the pair *)
(* worker with its closures phase and wave), Note, OnPair, clamp16, max    *)
(* and min.  src/audio/mixer.go holds two older revisions of the same      *)
(* file.                                                                   *)
(*                                                                         *)
(* Two goroutines share the channel records without any synchronisation    *)
(* but the pair's queue: the control loop (Start, with tick and the        *)
(* sequencer callback it calls) and the pair worker (startPair).  A step   *)
(* of the model is therefore one statement of the source, and the steps of *)
(* the two goroutines interleave freely.  Statements that touch only what  *)
(* the other goroutine never reads or writes are taken together with the   *)
(* statement before or after them: in tick the writes of Note, MVol,       *)
(* EnvPos and the LFO phases (read by the control loop only), in wave the  *)
(* clamp of delayAvg and the advance of histHead (unexported fields only   *)
(* the worker touches).  A worker statement that reads several fields the  *)
(* control goroutine writes (lines 219, 231, 236-237, 248) is a step for   *)
(* each such read, in the order of the source, the last one with the       *)
(* statement's write: the control goroutine may write between two reads.   *)
(*                                                                         *)
(* The caller is a third party: it made the channel output and receives    *)
(* from it, or stops doing so.  The control loop waits at each of its two  *)
(* sends (lines 145, 146) until the caller takes the value.                *)
(*                                                                         *)
(* Go's fixed-width integers are kept: an int32 or a uint32 is stored as   *)
(* the signed value of its 32-bit pattern (so int32 <-> uint32 conversions *)
(* are the identity on the stored value and + - * are the same operators   *)
(* for both), a uint16 as a number in 0 .. 65535.  TLC's own integers are  *)
(* 32 bits wide and do not wrap, so every operator below is written so     *)
(* that no intermediate value leaves that range.                           *)
(***************************************************************************)
EXTENDS Integers, Sequences, FiniteSets, TLC

-----------------------------------------------------------------------------
(* Go integer arithmetic                                                   *)

MaxI32 == 2147483647
MinI32 == -MaxI32 - 1

W16 == 65536
W24 == 16777216

\* Byte k (0 = lowest) of the two's complement pattern of an int32.
Byte(a, k) ==
    CASE k = 0 -> a % 256
      [] k = 1 -> (a \div 256) % 256
      [] k = 2 -> (a \div W16) % 256
      [] OTHER -> (a \div W24) % 256

\* The int32 whose pattern has the four given bytes.
FromBytes(r0, r1, r2, r3) ==
    (IF r3 >= 128 THEN r3 - 256 ELSE r3) * W24 + r2 * W16 + r1 * 256 + r0

\* a + b on int32 / uint32: wraps modulo 2^32.
AddI32(a, b) ==
    IF a >= 0 /\ b >= 0
    THEN IF b > MaxI32 - a THEN (a + MinI32) + (b + MinI32) ELSE a + b
    ELSE IF a < 0 /\ b < 0
    THEN IF b < MinI32 - a THEN ((a + MaxI32) + 1) + ((b + MaxI32) + 1) ELSE a + b
    ELSE a + b

\* -a on int32: wraps (the negation of MinI32 is MinI32).
NegI32(a) == IF a = MinI32 THEN MinI32 ELSE -a

\* a - b on int32 / uint32: wraps modulo 2^32.
SubI32(a, b) == AddI32(a, NegI32(b))

\* a * b on int32 / uint32: wraps modulo 2^32 (schoolbook product of the bytes).
MulI32(a, b) ==
    LET a0 == Byte(a, 0)  a1 == Byte(a, 1)  a2 == Byte(a, 2)  a3 == Byte(a, 3)
        b0 == Byte(b, 0)  b1 == Byte(b, 1)  b2 == Byte(b, 2)  b3 == Byte(b, 3)
        k0 == a0 * b0
        k1 == (k0 \div 256) + a0 * b1 + a1 * b0
        k2 == (k1 \div 256) + a0 * b2 + a1 * b1 + a2 * b0
        k3 == (k2 \div 256) + a0 * b3 + a1 * b2 + a2 * b1 + a3 * b0
    IN  FromBytes(k0 % 256, k1 % 256, k2 % 256, k3 % 256)

\* a >> 16 on int32: the arithmetic shift, which rounds toward minus infinity.
Shr16(a) == a \div W16

\* a >> 16 on uint32: the logical shift.
UShr16(a) == (a \div W16) % W16

\* a / b on int32, b # 0: truncates toward zero; MinI32 / -1 wraps to MinI32.
DivI32(a, b) ==
    LET posdiv(x, y) ==   \* y > 0
            IF x >= 0 THEN x \div y
            ELSE IF x = MinI32
                 THEN IF y = 1 THEN MinI32
                      ELSE -((MaxI32 \div y) + (IF MaxI32 % y = y - 1 THEN 1 ELSE 0))
                 ELSE -((-x) \div y)
    IN  IF b > 0 THEN posdiv(a, b)
        ELSE IF b = MinI32 THEN (IF a = MinI32 THEN 1 ELSE 0)
        ELSE IF a = MinI32 /\ b = -1 THEN MinI32
        ELSE NegI32(posdiv(a, -b))

\* a % b on int32, b # 0: the remainder of the truncating division.
ModI32(a, b) == SubI32(a, MulI32(b, DivI32(a, b)))

\* a < b on uint32.
ULt(a, b) ==
    IF a >= 0 /\ b < 0 THEN TRUE
    ELSE IF a < 0 /\ b >= 0 THEN FALSE
    ELSE a < b

\* a / b on uint32, b # 0.
UDiv(a, b) ==
    IF b < 0 THEN (IF ULt(a, b) THEN 0 ELSE 1)
    ELSE IF a >= 0 THEN a \div b
    ELSE IF b = 1 THEN a
    ELSE LET lo == (a + MaxI32) + 1          \* a = 2^31 + lo
             r1 == MaxI32 % b
             r2 == lo % b
             carry == IF r1 >= (b - r2) - 1 THEN 1 ELSE 0
         IN  (MaxI32 \div b) + (lo \div b) + carry

\* a % b on uint32, b # 0.
UMod(a, b) == SubI32(a, MulI32(b, UDiv(a, b)))

\* uint16(a) of an int32 / uint32: the low 16 bits.
U16(a) == a % W16

\* int16(a) of an int32: the low 16 bits, read as signed.
I16(a) == LET l == a % W16 IN IF l >= 32768 THEN l - W16 ELSE l

-----------------------------------------------------------------------------
(* Bounds of the model                                                     *)

\* The control loop is followed for this many output frames.
MaxCount == 3

\* Capacity of a pair's queue, in values.  Start makes each queue with room
\* for 384 values (part_000:127); the model scales that down so that a full
\* queue (a blocked worker) is reached within MaxCount frames.
QueueCap == 2

-----------------------------------------------------------------------------
(* Program constants                                                       *)

\* The number of channel pairs (part_000:24).
NumChans == 1

Pairs == 0 .. (NumChans - 1)
Chs   == 0 .. (2 * NumChans - 1)

PairStereo == 0
PairPM     == 1
PairAM     == 2
PairSync   == 3

FullScale == 65536     \* 0x10000, an amplitude of 100%
HalfScale == 32768     \* 0x8000

\* An empty interface{} slot, and a slot holding value v of dynamic type t.
Nil        == << >>
Dyn(t, v)  == <<t, v>>

\* Whether a slot holds a value of the given dynamic type.
Holds(slot, type) == slot # Nil /\ slot[1] = type

-----------------------------------------------------------------------------
(* Helpers of the package                                                  *)

clamp16(a) == IF a < -32768 THEN -32768 ELSE IF a > 32767 THEN 32767 ELSE a

\* (mutant) a max that keeps its first operand.
max_unfloored(a, b) == a

max(a, b) == IF a < b THEN b ELSE a

min(a, b) == IF a > b THEN b ELSE a

\* The waveform generator m.wave(sel, phase) handed to NewMixer: an external
\* pure function of a selector and a uint32 phase giving an int16.  The model
\* takes a 65536-point table per selector: 0 a square wave, 1 a rising
\* sawtooth, 2 a constant full-scale level, anything else silence.
waveGen(sel, ph) ==
    CASE sel = 0 -> IF U16(ph) < HalfScale THEN 32767 ELSE -32768
      [] sel = 1 -> U16(ph) - HalfScale
      [] sel = 2 -> 32767
      [] OTHER   -> 0

-----------------------------------------------------------------------------
(* float64.  The program's only floating-point code is Note                *)
(* (part_000:281-284) and the two conversions around it (193, 209).  A     *)
(* float64 is held exactly, as a sign, a whole number m and an exponent e  *)
(* with value m * 2^e, and every operation rounds its exact result to 53   *)
(* bits, to nearest with ties to even, as IEEE 754 has it.  math.Pow,      *)
(* math.Exp and math.Log are the portable routines of the Go library       *)
(* (pow.go, exp.go, log.go), one float64 operation after the other with    *)
(* no fused multiply-add.                                                  *)

\* The one element of a set.  The({ e : x \in { v } }) is e where x is v:
\* LET x == v IN e, with v worked out once however often e uses x.  A
\* chain of them reads from its last line up.
The(S) == CHOOSE r \in S : TRUE

\* A whole number of any size is the sequence of its digits in base 2^14,
\* lowest first, without leading zeros; << >> is zero.
LimbBase == 2 ^ 14

Digit(a, i) == IF i <= Len(a) THEN a[i] ELSE 0

RECURSIVE Trim(_)
Trim(a0) ==
    The({ IF a = << >> THEN a
          ELSE IF a[Len(a)] = 0 THEN Trim(SubSeq(a, 1, Len(a) - 1))
          ELSE a
          : a \in { a0 } })

\* The whole number n, 0 <= n < 2^31.
BigOf(n0) ==
    The({ Trim(<< n % LimbBase, (n \div LimbBase) % LimbBase,
                  n \div (LimbBase * LimbBase) >>)
          : n \in { n0 } })

\* The value of a whole number below 2^28.
SmallOf(a0) == The({ Digit(a, 1) + Digit(a, 2) * LimbBase : a \in { a0 } })

RECURSIVE BAddFrom(_, _, _, _)
BAddFrom(a, b, i, carry) ==
    IF i > Len(a) /\ i > Len(b)
    THEN IF carry = 0 THEN << >> ELSE << carry >>
    ELSE The({ << s % LimbBase >> \o BAddFrom(a, b, i + 1, s \div LimbBase)
               : s \in { Digit(a, i) + Digit(b, i) + carry } })

BAdd(a0, b0) ==
    The({ Trim(BAddFrom(a, b, 1, 0)) : a \in { a0 }, b \in { b0 } })

\* a - b for a >= b.
RECURSIVE BSubFrom(_, _, _, _)
BSubFrom(a, b, i, borrow) ==
    IF i > Len(a) THEN << >>
    ELSE The({ << s % LimbBase >>
                   \o BSubFrom(a, b, i + 1, IF s < 0 THEN 1 ELSE 0)
               : s \in { Digit(a, i) - Digit(b, i) - borrow } })

BSub(a0, b0) ==
    The({ Trim(BSubFrom(a, b, 1, 0)) : a \in { a0 }, b \in { b0 } })

BLess(a0, b0) ==
    The({ IF Len(a) # Len(b) THEN Len(a) < Len(b)
          ELSE \E i \in 1 .. Len(a) :
                  a[i] < b[i] /\ \A j \in (i + 1) .. Len(a) : a[j] = b[j]
          : a \in { a0 }, b \in { b0 } })

\* a * d for one digit d.
RECURSIVE BScaleFrom(_, _, _, _)
BScaleFrom(a, d, i, carry) ==
    IF i > Len(a)
    THEN IF carry = 0 THEN << >> ELSE << carry >>
    ELSE The({ << s % LimbBase >> \o BScaleFrom(a, d, i + 1, s \div LimbBase)
               : s \in { a[i] * d + carry } })

BScale(a0, d0) ==
    The({ Trim(BScaleFrom(a, d, 1, 0)) : a \in { a0 }, d \in { d0 } })

RECURSIVE BMulFrom(_, _, _)
BMulFrom(a, b, j) ==
    IF j > Len(b) THEN << >>
    ELSE BAdd(BScale(a, b[j]), << 0 >> \o BMulFrom(a, b, j + 1))

BMul(a0, b0) ==
    The({ Trim(BMulFrom(a, b, 1)) : a \in { a0 }, b \in { b0 } })

\* a * 2^n and the whole part of a / 2^n.
BShl(a0, n0) ==
    The({ Trim([i \in 1 .. (n \div 14) |-> 0]
                   \o BScaleFrom(a, 2 ^ (n % 14), 1, 0))
          : a \in { a0 }, n \in { n0 } })

BShr(a0, n0) ==
    The({ IF q >= Len(a) THEN << >>
          ELSE Trim([i \in 1 .. (Len(a) - q) |->
                        (a[q + i] \div (2 ^ r))
                           + (Digit(a, q + i + 1) % (2 ^ r)) * (2 ^ (14 - r))])
          : a \in { a0 }, q \in { n0 \div 14 }, r \in { n0 % 14 } })

\* Bit n of a (bit 0 is the lowest), and whether the bits below n are zero.
BBit(a, n) == (Digit(a, (n \div 14) + 1) \div (2 ^ (n % 14))) % 2

BLowZero(a0, n0) ==
    The({ /\ \A i \in 1 .. Len(a) : i <= n \div 14 => a[i] = 0
          /\ Digit(a, (n \div 14) + 1) % (2 ^ (n % 14)) = 0
          : a \in { a0 }, n \in { n0 } })

\* The number of bits of a (0 for zero).
BitLen(a0) ==
    The({ IF a = << >> THEN 0
          ELSE 14 * (Len(a) - 1)
                  + (CHOOSE b \in 1 .. 14 :
                        2 ^ (b - 1) <= a[Len(a)] /\ a[Len(a)] < 2 ^ b)
          : a \in { a0 } })

\* The largest digit q with q * d <= r, for r < d * 2^14, bit by bit from
\* bit b down.
RECURSIVE QDigit(_, _, _, _)
QDigit(r, d, b, q) ==
    IF b < 0 THEN q
    ELSE IF BLess(r, BScale(d, q + 2 ^ b))
    THEN QDigit(r, d, b - 1, q)
    ELSE QDigit(r, d, b - 1, q + 2 ^ b)

\* The whole part of n / d and the remainder, digit by digit from digit i
\* of n down, for d > 0; r is the remainder so far.
RECURSIVE BDivFrom(_, _, _, _)
BDivFrom(n, d, i, r) ==
    IF i = 0 THEN << << >>, r >>
    ELSE The({ The({ The({
             << rest[1] \o << q >>, rest[2] >>
             : rest \in { BDivFrom(n, d, i - 1, BSub(r2, BScale(d, q))) } })
             : q \in { QDigit(r2, d, 13, 0) } })
             : r2 \in { Trim(<< n[i] >> \o r) } })

BDiv(n0, d0) ==
    The({ The({ << Trim(r[1]), r[2] >>
                : r \in { BDivFrom(n, d, Len(n), << >>) } })
          : n \in { n0 }, d \in { d0 } })

\* The whole part of the square root of n, bit by bit from bit i down.
RECURSIVE BSqrtFrom(_, _, _)
BSqrtFrom(n, i, s) ==
    IF i < 0 THEN s
    ELSE LET t == BAdd(s, BShl(<< 1 >>, i))
         IN  IF BLess(n, BMul(t, t)) THEN BSqrtFrom(n, i - 1, s)
             ELSE BSqrtFrom(n, i - 1, t)

BSqrt(n0) ==
    The({ BSqrtFrom(n, (BitLen(n) + 1) \div 2, << >>) : n \in { n0 } })

\* The float64 values.  A finite one has 2^52 <= m < 2^53 and
\* -1074 <= e <= 971, or is subnormal or zero: m < 2^52 and e = -1074.
Fin(neg, w, e) == [k |-> "fin", neg |-> neg, m |-> w, e |-> e]
Inf(neg)       == [k |-> "inf", neg |-> neg, m |-> << 1 >>, e |-> 1024]
NaN            == [k |-> "nan", neg |-> FALSE, m |-> << >>, e |-> 0]

IsZero(x) == x.k = "fin" /\ x.m = << >>

\* Rounding: the float64 nearest (ties to even) to a value of sign neg and
\* size M * 2^e, or, when sticky, to one just above that size.  A sticky
\* value comes with more than 53 bits in M.
Rounded(neg, w0, q0) ==
    The({ IF w = << >> THEN Fin(neg, w, -1074)
          ELSE IF q + BitLen(w) > 1024 THEN Inf(neg)
          ELSE Fin(neg, w, q)
          : w \in { w0 }, q \in { q0 } })

\* The rounding of M * 2^e to the exponent q > e: the bits of M from s = q - e
\* up, and 1 more when the bits below are more than half, or half and the
\* result odd.
RoundedAt(neg, M, s, q, sticky) ==
    The({ The({
        IF BitLen(r) = 54 THEN Rounded(neg, BShr(r, 1), q + 1)
        ELSE Rounded(neg, r, q)
        : r \in { IF BBit(M, s - 1) = 1
                       /\ (sticky \/ ~BLowZero(M, s - 1) \/ BBit(t, 0) = 1)
                  THEN BAdd(t, << 1 >>) ELSE t } })
        : t \in { BShr(M, s) } })

FRound(neg0, M0, e0, sticky0) ==
    The({ IF M = << >> THEN Fin(neg, M, -1074)
          ELSE The({ IF q <= e THEN Rounded(neg, BShl(M, e - q), q)
                     ELSE RoundedAt(neg, M, q - e, q, sticky)
                     : q \in { IF e + BitLen(M) - 53 < -1074 THEN -1074
                               ELSE e + BitLen(M) - 53 } })
          : neg \in { neg0 }, M \in { M0 }, e \in { e0 }, sticky \in { sticky0 } })

\* Comparison.
MagLess(x, y) == x.e < y.e \/ (x.e = y.e /\ BLess(x.m, y.m))

FLess(x0, y0) ==
    The({ IF x.k = "nan" \/ y.k = "nan" THEN FALSE
          ELSE IF x.neg # y.neg THEN x.neg /\ ~(IsZero(x) /\ IsZero(y))
          ELSE IF x.neg THEN MagLess(y, x)
          ELSE MagLess(x, y)
          : x \in { x0 }, y \in { y0 } })

FEq(x0, y0) ==
    The({ /\ x.k # "nan" /\ y.k # "nan"
          /\ x.m = y.m /\ x.e = y.e
          /\ (x.neg = y.neg \/ IsZero(x))
          : x \in { x0 }, y \in { y0 } })

\* The operators -x, x + y, x - y, x * y, x / y.
FNeg(x0) ==
    The({ IF x.k = "nan" THEN x ELSE [x EXCEPT !.neg = ~x.neg] : x \in { x0 } })

\* The widest gap of exponents x + y lines up exactly; past it the smaller
\* number only tips the rounding.
AlignMax == 128

FAddFin(x, y) ==
    The({ LET big   == IF less THEN y ELSE x
              small == IF less THEN x ELSE y
              far   == big.e - small.e > AlignMax
              same  == big.neg = small.neg
          IN  IF IsZero(small)
              THEN IF IsZero(big) THEN Fin(x.neg /\ y.neg, << >>, -1074)
                   ELSE big
              ELSE The({
                  IF ~far /\ ~same /\ X = small.m THEN Fin(FALSE, << >>, -1074)
                  ELSE FRound(big.neg,
                              IF far THEN IF same THEN X ELSE BSub(X, << 1 >>)
                              ELSE IF same THEN BAdd(X, small.m)
                              ELSE BSub(X, small.m),
                              IF far THEN big.e - 2 ELSE small.e,
                              far)
                  : X \in { BShl(big.m,
                                 IF far THEN 2 ELSE big.e - small.e) } })
          : less \in { MagLess(x, y) } })

FAdd(x0, y0) ==
    The({ IF x.k = "nan" \/ y.k = "nan" THEN NaN
          ELSE IF x.k = "inf"
          THEN IF y.k = "inf" /\ x.neg # y.neg THEN NaN ELSE x
          ELSE IF y.k = "inf" THEN y
          ELSE FAddFin(x, y)
          : x \in { x0 }, y \in { y0 } })

FSub(x, y) == FAdd(x, FNeg(y))

FMul(x0, y0) ==
    The({ IF x.k = "nan" \/ y.k = "nan" THEN NaN
          ELSE IF x.k = "inf" \/ y.k = "inf"
          THEN IF IsZero(x) \/ IsZero(y) THEN NaN ELSE Inf(x.neg # y.neg)
          ELSE FRound(x.neg # y.neg, BMul(x.m, y.m), x.e + y.e, FALSE)
          : x \in { x0 }, y \in { y0 } })

\* x / y for finite x and y, neither of them 0: the quotient of the
\* mantissas to 56 bits or more, and whether it left a remainder.
FDivFin(x, y) ==
    The({ The({ FRound(x.neg # y.neg, d[1], x.e - sh - y.e, d[2] # << >>)
                : d \in { BDiv(BShl(x.m, sh), y.m) } })
          : sh \in { IF BitLen(y.m) + 56 - BitLen(x.m) > 0
                     THEN BitLen(y.m) + 56 - BitLen(x.m) ELSE 0 } })

FDiv(x0, y0) ==
    The({ IF x.k = "nan" \/ y.k = "nan" THEN NaN
          ELSE IF x.k = "inf"
          THEN IF y.k = "inf" THEN NaN ELSE Inf(x.neg # y.neg)
          ELSE IF y.k = "inf" THEN Fin(x.neg # y.neg, << >>, -1074)
          ELSE IF IsZero(y)
          THEN IF IsZero(x) THEN NaN ELSE Inf(x.neg # y.neg)
          ELSE IF IsZero(x) THEN Fin(x.neg # y.neg, << >>, -1074)
          ELSE FDivFin(x, y)
          : x \in { x0 }, y \in { y0 } })

\* math.Sqrt: the square root, rounded.  x.m is shifted left until it has
\* 109 or 110 bits (a subnormal x has fewer than 53 to start with) and the
\* exponent left is even, so that the whole root s has 55 bits; the bits of
\* the root below s are not all 0 where s * s is not the shifted mantissa.
Sqrt(x0) ==
    The({ IF x.k = "nan" \/ IsZero(x) THEN x
          ELSE IF x.neg THEN NaN
          ELSE IF x.k = "inf" THEN x
          ELSE The({ The({ The({
                   FRound(FALSE, s, (x.e - sh) \div 2, BMul(s, s) # M)
                   : s \in { BSqrt(M) } })
                   : M \in { BShl(x.m, sh) } })
                   : sh \in { IF (x.e - (109 - BitLen(x.m))) % 2 # 0
                              THEN 110 - BitLen(x.m)
                              ELSE 109 - BitLen(x.m) } })
          : x \in { x0 } })

\* Conversions from integers: float64(n) of an int, of an int32 and of a
\* uint32 held as its stored value.
FInt(n0) ==
    The({ IF n = MinI32 THEN Fin(TRUE, BShl(<< 1 >>, 52), -21)
          ELSE FRound(n < 0, BigOf(IF n < 0 THEN -n ELSE n), 0, FALSE)
          : n \in { n0 } })

FUint32(n0) ==
    The({ IF n >= 0 THEN FRound(FALSE, BigOf(n), 0, FALSE)
          ELSE FRound(FALSE, BAdd(BigOf((n + MaxI32) + 1), << 0, 0, 8 >>),
                      0, FALSE)
          : n \in { n0 } })

\* The whole part of the size of a finite x.
Whole(x0) ==
    The({ IF x.e >= 0 THEN BShl(x.m, x.e) ELSE BShr(x.m, -x.e) : x \in { x0 } })

\* int(x) for a finite x below 2^28 in size.
IntOf(x0) ==
    The({ IF x.neg THEN -SmallOf(Whole(x)) ELSE SmallOf(Whole(x)) : x \in { x0 } })

\* The low 32 bits of a whole number as a stored uint32, and its low 16.
Low32(a0) ==
    The({ (IF top >= 8 THEN top - 16 ELSE top) * (LimbBase * LimbBase)
             + Digit(a, 2) * LimbBase + Digit(a, 1)
          : a \in { a0 }, top \in { Digit(a0, 3) % 16 } })

Low16(a0) == The({ (Digit(a, 2) % 4) * LimbBase + Digit(a, 1) : a \in { a0 } })

\* The constants of exp.go and log.go, bit for bit, and the literals of
\* Note and math.Pow.
Ln2Hi     == Fin(FALSE, << 0, 15232, 9263, 1419 >>, -53)
Ln2Lo     == Fin(FALSE, << 15478, 5604, 7923, 1678 >>, -85)
Log2e     == Fin(FALSE, << 766, 5294, 5238, 1477 >>, -52)
Overflow  == Fin(FALSE, << 14831, 15336, 9263, 1419 >>, -43)
Underflow == Fin(TRUE, << 12369, 5300, 4365, 1490 >>, -43)
NearZero  == Fin(FALSE, BShl(<< 1 >>, 52), -80)
P1 == Fin(FALSE, << 5461, 5461, 5461, 1365 >>, -55)
P2 == Fin(TRUE, << 15763, 6906, 5825, 1456 >>, -61)
P3 == Fin(FALSE, << 7724, 15511, 9898, 1109 >>, -66)
P4 == Fin(TRUE, << 11249, 5961, 5148, 1775 >>, -72)
P5 == Fin(FALSE, << 9424, 2810, 13975, 1421 >>, -77)
L1 == Fin(FALSE, << 5523, 5461, 5461, 1365 >>, -53)
L2 == Fin(FALSE, << 14852, 9823, 6553, 1638 >>, -54)
L3 == Fin(FALSE, << 4953, 4234, 4681, 1170 >>, -54)
L4 == Fin(FALSE, << 14511, 13881, 7249, 1820 >>, -55)
L5 == Fin(FALSE, << 990, 6956, 9801, 1489 >>, -55)
L6 == Fin(FALSE, << 1695, 483, 8349, 1254 >>, -55)
L7 == Fin(FALSE, << 4676, 15609, 4397, 1212 >>, -55)
HalfSqrt2 == Fin(FALSE, << 15309, 6652, 2534, 1448 >>, -53)
FHalf == Fin(FALSE, BShl(<< 1 >>, 52), -53)
FOne  == FInt(1)
FTwo  == FInt(2)

\* math.Frexp, math.Ldexp and math.Modf of a finite x (Modf of x >= 0).
Frexp(x) ==
    IF IsZero(x) THEN [frac |-> x, exp |-> 0]
    ELSE [frac |-> Fin(x.neg, BShl(x.m, 53 - BitLen(x.m)), -53),
          exp  |-> x.e + BitLen(x.m)]

Ldexp(frac, exp) ==
    IF frac.k # "fin" \/ IsZero(frac) THEN frac
    ELSE FRound(frac.neg, frac.m, frac.e + exp, FALSE)

Modf(x) ==
    The({ [int |-> w, frac |-> FSub(x, w)]
          : w \in { FRound(FALSE, Whole(x), 0, FALSE) } })

\* expmulti (exp.go): exp(hi - lo) * 2^k.
expmulti(hi, lo, k) ==
    The({ The({ The({
        LET y == FSub(FOne,
                      FSub(FSub(lo, FDiv(FMul(r, c), FSub(FTwo, c))), hi))
        IN  Ldexp(y, k)
        : c \in { FSub(r, FMul(t, FAdd(P1, FMul(t, FAdd(P2, FMul(t,
                      FAdd(P3, FMul(t, FAdd(P4, FMul(t, P5)))))))))) } })
        : t \in { FMul(r, r) } })
        : r \in { FSub(hi, lo) } })

\* math.Exp of a finite x (exp.go, func exp).
Exp(x) ==
    IF FLess(Overflow, x) THEN Inf(FALSE)
    ELSE IF FLess(x, Underflow) THEN Fin(FALSE, << >>, -1074)
    ELSE IF FLess(FNeg(NearZero), x) /\ FLess(x, NearZero) THEN FAdd(FOne, x)
    ELSE The({ LET hi == FSub(x, FMul(FInt(k), Ln2Hi))
                   lo == FMul(FInt(k), Ln2Lo)
               IN  expmulti(hi, lo, k)
               : k \in { IntOf(IF x.neg THEN FSub(FMul(Log2e, x), FHalf)
                               ELSE FAdd(FMul(Log2e, x), FHalf)) } })

\* math.Log of a finite x > 0 (log.go, func log).
Log(x) ==
    The({ The({ The({ The({ The({ The({
        LET t1 == FMul(s2, FAdd(L1, FMul(s4, FAdd(L3, FMul(s4,
                      FAdd(L5, FMul(s4, L7)))))))
            t2 == FMul(s4, FAdd(L2, FMul(s4, FAdd(L4, FMul(s4, L6)))))
            R  == FAdd(t1, t2)
        IN  FSub(FMul(k, Ln2Hi),
                 FSub(FSub(hfsq, FAdd(FMul(s, FAdd(hfsq, R)), FMul(k, Ln2Lo))),
                      f))
        : s4 \in { FMul(s2, s2) }, hfsq \in { FMul(FMul(FHalf, f), f) } })
        : s2 \in { FMul(s, s) } })
        : s \in { FDiv(f, FAdd(FTwo, f)) } })
        : f \in { FSub(IF low THEN FMul(fr.frac, FTwo) ELSE fr.frac, FOne) },
          k \in { FInt(IF low THEN fr.exp - 1 ELSE fr.exp) } })
        : low \in { FLess(fr.frac, HalfSqrt2) } })
        : fr \in { Frexp(x) } })

\* The loop of math.Pow (pow.go) that multiplies the answer a1 * 2^ae by
\* (x1 * 2^xe)^i, squaring x1 * 2^xe for every bit of i.
RECURSIVE PowLoop(_, _, _, _, _)
PowLoop(i, a1, ae, x1, xe) ==
    IF i = 0 THEN [a1 |-> a1, ae |-> ae]
    ELSE IF xe < -(2 ^ 12) \/ 2 ^ 12 < xe THEN [a1 |-> a1, ae |-> ae + xe]
    ELSE The({ LET be == IF i % 2 = 1 THEN ae + xe ELSE ae
               IN  IF FLess(sq, FHalf)
                   THEN PowLoop(i \div 2, b1, be, FAdd(sq, sq), 2 * xe - 1)
                   ELSE PowLoop(i \div 2, b1, be, sq, 2 * xe)
               : b1 \in { IF i % 2 = 1 THEN FMul(a1, x1) ELSE a1 },
                 sq \in { FMul(x1, x1) } })

\* math.Pow(x, y) for a finite x > 0 and a finite y below 2^28 in size
\* (pow.go, func pow): the cases it can take with such arguments.
Pow(x, y) ==
    IF IsZero(y) \/ FEq(x, FOne) THEN FOne
    ELSE IF FEq(y, FOne) THEN x
    ELSE IF FEq(y, FHalf) THEN Sqrt(x)
    ELSE IF FEq(y, FNeg(FHalf)) THEN FDiv(FOne, Sqrt(x))
    ELSE The({ The({ The({
             IF y.neg THEN Ldexp(FDiv(FOne, a.a1), -a.ae)
             ELSE Ldexp(a.a1, a.ae)
             : a \in { PowLoop(IntOf(yi), a0, 0, fr.frac, fr.exp) } })
             : yi \in { IF FLess(FHalf, mf.frac) THEN FAdd(mf.int, FOne)
                        ELSE mf.int },
               a0 \in { IF IsZero(mf.frac) THEN FOne
                        ELSE IF FLess(FHalf, mf.frac)
                        THEN Exp(FMul(FSub(mf.frac, FOne), Log(x)))
                        ELSE Exp(FMul(mf.frac, Log(x))) },
               fr \in { Frexp(x) } })
             : mf \in { Modf([y EXCEPT !.neg = FALSE]) } })

\* Note (part_000:281-284): the frequency of a note.
Note(note) ==
    LET fnote == FDiv(FInt(note), FInt(FullScale))
    IN  FMul(Pow(FTwo, FDiv(FSub(fnote, FInt(69)), FInt(12))), FInt(440))

\* The notes the sessions below come to play, and Note of each of them,
\* worked out once.
Played ==
    { n * W16 : n \in {-72, -51, -30, 0, 60, 63, 69, 72, 75, 81, 124, 128} }
      \cup { 60 * W16 + d : d \in {-HalfScale, 1, 2, 3} } \cup { MaxI32 }

NoteTable == { << n, Note(n) >> : n \in Played }

\* Note(note), read from the table when it has the note.
NoteOf(note) ==
    IF note \in Played THEN The({ p \in NoteTable : p[1] = note })[2]
    ELSE Note(note)

\* The whole part w of a product or quotient as Go's conversion sees it:
\* its low bits, and whether it fits the given number of bits (a negative
\* value fits when its whole part is 0).
Truncated(p, w, low, bits) ==
    IF p.k # "fin" THEN [v |-> 0, ok |-> FALSE]
    ELSE [v |-> low, ok |-> BitLen(w) <= bits /\ (~p.neg \/ w = << >>)]

\* trunc(float64(n) * f) for a uint32 n: the low 32 bits of the value, and
\* whether the value is one a uint32 holds.
MulTrunc(n, f) ==
    The({ The({ Truncated(p, w, Low32(w), 32)
                : w \in { IF p.k = "fin" THEN Whole(p) ELSE << >> } })
          : p \in { FMul(FUint32(n), f) } })

\* trunc(float64(n) / f) for a uint32 n: the low 16 bits of the value, and
\* whether the value is one a uint16 holds.
DivTrunc(n, f) ==
    The({ The({ Truncated(p, w, Low16(w), 16)
                : w \in { IF p.k = "fin" THEN Whole(p) ELSE << >> } })
          : p \in { FDiv(FUint32(n), f) } })
-----------------------------------------------------------------------------
(* The state                                                               *)

VARIABLES
    m,       \* the Mixer's scalar fields
    Ch,      \* m.Ch: the channel records, pair i = channels 2i (left), 2i+1 (right)
    chans,   \* m.chans: per pair, the values in its queue, oldest first
    ctl,     \* the control loop (Start): its position and its locals
    wrk,     \* per pair, the worker (startPair): its position and its locals
    out,     \* the caller's end of the channel output: the last value it
             \* took of each side
    fault,   \* "none", or what made the process panic: the operand whose zero
             \* value an integer division met, or "index" (it is then dead)
    env,     \* the caller: the sample rate it hands to Start, what its
             \* sequencer callback will do, call by call, and whether it is
             \* waiting to receive from output
    g        \* history, read by the properties only (see NewHistory)

vars == <<m, Ch, chans, ctl, wrk, out, fault, env, g>>

\* A Channel as NewMixer leaves it.  hist holds only the entries that are
\* not 0 (the array has 65536 of them, all 0 at first).
NewChannel ==
    [ Wave |-> 0, PairMode |-> PairStereo,
      Note |-> 60 * W16, Slide |-> 0,
      Vol |-> 0, MVol |-> HalfScale, Fade |-> 0,
      Len |-> W16, Phase |-> 0, period |-> 0,
      DelayTicks |-> Nil, DelayNote |-> Nil,
      DryLevel |-> FullScale, WetLevel |-> 0, Feedback |-> 0,
      delay |-> 0, FilterLen |-> 0,
      hist |-> << >>, histHead |-> 0, delayAvg |-> 0,
      Attack |-> 0, Peak |-> 0, Decay |-> 0, Sustain |-> 0, Release |-> 0,
      EnvPos |-> 0, NoteOn |-> FALSE,
      Tremolo |-> 0, TremoloWave |-> 0, TremoloRate |-> 0, TremoloPhase |-> 0,
      tremoloOut |-> 0,
      Vibrato |-> 0, VibratoWave |-> 0, VibratoRate |-> 0, VibratoPhase |-> 0 ]

\* The Mixer as NewMixer returns it.
NewMixer ==
    [ m  |-> [ srate |-> 0, count |-> 0, nextTick |-> 0,
               BPM |-> 120, TickRate |-> 24, TickSpeed |-> 6, tickCount |-> 0 ],
      Ch |-> [c \in Chs |-> NewChannel] ]

\* The fields a tick writes or the worker only reads, and the fields the
\* worker writes (the two roles of the ownership split).
SampleRateFields == {"Phase", "hist", "histHead", "delayAvg"}
TickRateFields   == (DOMAIN NewChannel) \ SampleRateFields

\* Code outside the package writes the exported fields: before Start, and in
\* the sequencer callback.  What it runs is a program: a sequence of
\* statements, each an assignment to a field of the mixer (WrM) or of one
\* channel (WrCh), or one invocation op(&m.Ch[c]) of a closure (the two
\* statements of OnPair).
WrM(f, v)     == << [t |-> "m", i |-> 0, f |-> f, v |-> v] >>
WrCh(c, f, v) == << [t |-> "ch", i |-> c, f |-> f, v |-> v] >>

\* The op handed to OnPair is a closure on a channel.  Three shapes of it:
\* "set" assigns v to field f, "add" adds v to it, and "stamp" counts its
\* own invocations in a captured variable n of the field's type and writes
\* the count to f
\*     var n T;  op := func(c *Channel) { n++; c.f = n }
\* so that the order of the invocations shows in what is written.  v is a
\* value of the field's type.
Op(k, f, v) == [k |-> k, f |-> f, v |-> v]

\* (mutant) OnPair calling op on the right channel first.
OnPair_rightFirst(i, op) ==
    << [t |-> "op", i |-> 2 * i + 1, f |-> op.f, v |-> op],
       [t |-> "op", i |-> 2 * i, f |-> op.f, v |-> op] >>

\* OnPair(i, op): op(&m.Ch[i*2]), then op(&m.Ch[i*2+1]).
OnPair(i, op) ==
    << [t |-> "op", i |-> 2 * i, f |-> op.f, v |-> op],
       [t |-> "op", i |-> 2 * i + 1, f |-> op.f, v |-> op] >>

\* The caller's usual use of OnPair: one value for a field of both channels.
WrPair(i, f, v) == OnPair(i, Op("set", f, v))

\* a + v in the type of field f of Channel.  FilterLen, delay and histHead
\* are uint16 (lines 70-73) and wrap at 2^16; Wave, PairMode, TremoloWave
\* and VibratoWave are int (lines 53, 54, 85, 91); the other numbers are
\* int32 or uint32 and wrap at 2^32.  An int has 64 bits, and the sum of two
\* values inside the int32 range does not wrap in it: it is the sum itself,
\* where the model's integers hold it (TLC stops on a sum outside the int32
\* range; it does not wrap it).
Plus(f, a, v) ==
    IF f \in {"delay", "FilterLen", "histHead"} THEN U16(a + v)
    ELSE IF f \in {"Wave", "PairMode", "TremoloWave", "VibratoWave"} THEN a + v
    ELSE AddI32(a, v)

\* One invocation op(c), n being the closure's captured counter: the channel
\* and the counter after it.
Call(op, c, n) ==
    CASE op.k = "set"   -> [c |-> [c EXCEPT ![op.f] = op.v], n |-> n]
      [] op.k = "add"   -> [c |-> [c EXCEPT ![op.f] = Plus(op.f, @, op.v)],
                            n |-> n]
      [] op.k = "stamp" -> [c |-> [c EXCEPT ![op.f] = Plus(op.f, n, 1)],
                            n |-> Plus(op.f, n, 1)]

\* Whether a statement indexes m.Ch outside the array.
OutOfRange(w) == w.t # "m" /\ w.i \notin Chs

\* One statement w of a program, on st = the mixer's fields m, the channels
\* Ch and the captured counter n (w in range).
Write(st, w) ==
    CASE w.t = "m"  -> [st EXCEPT !.m[w.f] = w.v]
      [] w.t = "ch" -> [st EXCEPT !.Ch[w.i][w.f] = w.v]
      [] w.t = "op" -> LET r == Call(w.v, st.Ch[w.i], st.n)
                       IN  [st EXCEPT !.Ch[w.i] = r.c, !.n = r.n]

\* A program run from its first statement to its last with nothing else
\* running, as the caller's setup before Start is.
RECURSIVE Run(_, _)
Run(st, prog) ==
    IF prog = << >> THEN st ELSE Run(Write(st, Head(prog)), Tail(prog))

\* History variables.  got: the queue entries the control loop received in
\* its current step, in order; ticked: whether a tick fired in the current
\* step; ticksSince: the ticks fired since the last sequencer callback (or
\* since the start); seqCalls: the callbacks made so far; ticks: the ticks
\* fired so far; written: the channels the running (or latest) callback
\* wrote a field other than the note-on flag of; retrig, retrigMore: the
\* channels whose note-on flag the latest callback turned on, writing nothing
\* else to the channel (retrig) or other fields too (retrigMore), until the
\* next tick has passed; wrapped: the pairs whose left oscillator wrapped
\* (the phase plus the period it read reached its length) in the worker's
\* latest advance of it.
NewHistory ==
    [ got |-> << >>, ticked |-> FALSE, ticksSince |-> 0, seqCalls |-> 0,
      ticks |-> 0, written |-> {}, retrig |-> {}, retrigMore |-> {},
      wrapped |-> {} ]

\* The history after statement w of a callback, chs being the channels
\* before it.
Noted(h, w, chs) ==
    IF w.t = "m" THEN h
    ELSE IF w.f = "NoteOn"
    THEN IF chs[w.i].NoteOn \/ Write([m |-> << >>, Ch |-> chs, n |-> 0], w).Ch[w.i].NoteOn = FALSE
         THEN h
         ELSE IF w.i \in h.written
              THEN [h EXCEPT !.retrigMore = @ \cup {w.i}]
              ELSE [h EXCEPT !.retrig = @ \cup {w.i}]
    ELSE [h EXCEPT !.written = @ \cup {w.i},
                   !.retrig = @ \ {w.i},
                   !.retrigMore = @ \cup (h.retrig \cap {w.i})]

\* A worker's locals before its first iteration, and at the top of each:
\* pc its position, n the iterations begun, mode the pair mode read by the
\* switch, side the channel of the call of phase or wave it is in (0 left, 1
\* right), x and y the operands the statement it is in has read so far, ph
\* the argument phase of wave, ds, de, dry the locals delayStart, delayEnd,
\* dry of wave, lwave the local lwave, val the value to send, sent the sends
\* done.
NewWorker ==
    [ pc |-> "idle", n |-> 0, mode |-> 0, side |-> 0, x |-> 0, y |-> 0,
      ph |-> 0, ds |-> 0, de |-> 0, dry |-> 0, lwave |-> 0, val |-> 0,
      sent |-> 0 ]

\* The control loop's locals before Start: pc its position, ti the channel
\* tick's loop is at, vib tick's local vibratoOut, prog the statements the
\* running callback still has to run and n its closure's captured counter,
\* ri the pair the mix loop is at, mixL and mixR the two sums.
NewControl ==
    [ pc |-> "start", ti |-> 0, vib |-> 0, prog |-> << >>, n |-> 0,
      ri |-> 0, mixL |-> 0, mixR |-> 0 ]

\* A session: the program the caller runs on the new mixer before Start, the
\* sample rate it hands to Start, and its sequencer, as the programs its
\* successive callbacks run (none once the sequence is used up).
Session(setup, srate, song) == [setup |-> setup, srate |-> srate, song |-> song]

\* The state when Start is called, for one of the given sessions.
InitWith(sessions) ==
    \E ses \in sessions :
        LET st == Run([m |-> NewMixer.m, Ch |-> NewMixer.Ch, n |-> 0], ses.setup) IN
        /\ env = [srate |-> ses.srate, song |-> ses.song, recv |-> FALSE]
        /\ m = st.m
        /\ Ch = st.Ch
        /\ chans = [i \in Pairs |-> << >>]
        /\ ctl = NewControl
        /\ wrk = [i \in Pairs |-> NewWorker]
        /\ out = [L |-> 0, R |-> 0]
        /\ fault = "none"
        /\ g = NewHistory

Panic(what) ==
    /\ fault' = what
    /\ UNCHANGED <<m, Ch, chans, ctl, wrk, out, env, g>>

-----------------------------------------------------------------------------
(* tick: the tick scheduler (part_000:154-213)                              *)

\* The envelope step of one channel.  The cases are tried in order, as the
\* switch does; Peak/Attack is evaluated only when the first two fail.
EnvFault(c) == c.Release >= 1 /\ c.NoteOn /\ c.Attack = 0

\* (mutant) the envelope with the decay test ahead of the attack test.
Envelope_decayFirst(c) ==
    IF c.Release < 1 THEN c.Vol
    ELSE IF ~c.NoteOn THEN max(0, SubI32(c.Vol, c.Release))
    ELSE IF c.Vol > c.Sustain THEN max(0, SubI32(c.Vol, c.Decay))
    ELSE IF c.EnvPos < DivI32(c.Peak, c.Attack)
         THEN min(FullScale, AddI32(c.Vol, c.Attack))
    ELSE c.Vol

Envelope(c) ==
    IF c.Release < 1 THEN c.Vol
    ELSE IF ~c.NoteOn THEN max(0, SubI32(c.Vol, c.Release))
    ELSE IF c.EnvPos < DivI32(c.Peak, c.Attack)
         THEN min(FullScale, AddI32(c.Vol, c.Attack))
    ELSE IF c.Vol > c.Sustain THEN max(0, SubI32(c.Vol, c.Decay))
    ELSE c.Vol

\* An LFO's output: the generator sampled at the top 16 bits of the phase,
\* scaled by the depth.
LfoOut(sel, ph, depth) == Shr16(MulI32(waveGen(sel, UShr16(ph)), depth))

\* 60*srate/BPM/TickRate, the tick interval in samples (BPM, TickRate # 0).
TickInterval(mm) == UDiv(UDiv(MulI32(60, mm.srate), mm.BPM), mm.TickRate)

\* What a float64 may become when converted to uint16, given the low 16
\* bits of its whole part and whether a uint16 holds it: the value itself
\* when it fits; when it does not, Go leaves the result to the
\* implementation, and the builds give the low 16 bits (conversion through
\* a wider integer), 0 (through an integer too narrow for the value) or the
\* largest uint16 (a saturating conversion).
AsUint16(r) == IF r.ok THEN {r.v} ELSE {r.v, 0, W16 - 1}

\* The same for uint32 (the largest uint32 is stored as -1).
AsUint32(r) == IF r.ok THEN {r.v} ELSE {r.v, 0, -1}

\* The delay in samples of a request in ticks (BPM, TickRate # 0).
DelayOfTicks(t, mm) ==
    U16(UDiv(UDiv(MulI32(MulI32(t, mm.srate), 60), mm.BPM), mm.TickRate))

\* The delay in samples of a request in note units: the values line 193 may
\* store.
DelayOfNote(n, mm) == AsUint16(DivTrunc(mm.srate, NoteOf(n)))

\* (mutant) a request slot that keeps its request.
ClearSlot_keeps(slot, type) == slot

\* A request slot after its type assertion: emptied when the assertion held.
ClearSlot(slot, type) == IF Holds(slot, type) THEN Nil ELSE slot

\* (mutant) the period with Len/srate taken as a fraction: trunc(Len * f / srate).
Period_fraction(len, note, mm) == {UDiv(MulTrunc(len, NoteOf(note)).v, mm.srate)}

\* The per-sample phase increment: the values line 209 may store (srate # 0).
Period(len, note, mm) == AsUint32(MulTrunc(UDiv(len, mm.srate), NoteOf(note)))

\* (mutant) a tick that also restarts the oscillator.
tickSlides_restarts(c) ==
    [c EXCEPT !.Note = AddI32(c.Note, c.Slide),
              !.MVol = max(AddI32(c.MVol, c.Fade), 0),
              !.Vol  = Envelope(c),
              !.Phase = 0]

\* Lines 159-160: the slides of the note and of the mixer volume.
tickFade(c) ==
    [c EXCEPT !.Note = AddI32(c.Note, c.Slide),
              !.MVol = max(AddI32(c.MVol, c.Fade), 0)]

\* Lines 159-178: the slides and the envelope switch (no fault).
tickSlides(c) == [tickFade(c) EXCEPT !.Vol = Envelope(c)]

\* Lines 180-184: the envelope position and the tremolo.
tickTremolo(c) ==
    LET tremPh == AddI32(c.TremoloPhase, c.TremoloRate)
    IN  [c EXCEPT !.EnvPos = AddI32(c.EnvPos, 1),
                  !.TremoloPhase = tremPh,
                  !.tremoloOut = LfoOut(c.TremoloWave, tremPh, c.Tremolo)]

\* Lines 186-188: the vibrato; its output is the local vibratoOut.
tickVibrato(c) == [c EXCEPT !.VibratoPhase = AddI32(c.VibratoPhase, c.VibratoRate)]
VibratoOut(c)  == LfoOut(c.VibratoWave, c.VibratoPhase, c.Vibrato)

\* Lines 191-195: the values c.delay may have after the first assertion.
DelayAfterNote(c, mm) ==
    IF Holds(c.DelayNote, "int32") THEN DelayOfNote(c.DelayNote[2], mm)
    ELSE {c.delay}

\* The division by zero, if any, that lines 196-201 run into.
DelayTicksFault(c, mm) ==
    IF ~Holds(c.DelayTicks, "uint32") THEN "none"
    ELSE IF mm.BPM = 0 THEN "BPM"
    ELSE IF mm.TickRate = 0 THEN "TickRate"
    ELSE "none"

\* Lines 196-201: the second assertion (no fault).
tickDelayTicks(c, mm) ==
    [c EXCEPT !.delay = IF Holds(c.DelayTicks, "uint32")
                        THEN DelayOfTicks(c.DelayTicks[2], mm) ELSE c.delay,
              !.DelayTicks = ClearSlot(c.DelayTicks, "uint32")]

\* Lines 204-206.
tickFilter(c) == [c EXCEPT !.FilterLen = IF c.FilterLen = 0 THEN 1 ELSE c.FilterLen]

\* (mutant) the next tick counted from the sample after this one.
NextTickAfter_late(mm) == AddI32(TickInterval(mm), AddI32(mm.count, 1))

\* m.nextTick after a tick (BPM, TickRate # 0).
NextTickAfter(mm) == AddI32(TickInterval(mm), mm.count)

\* tick, lines 156-178 for the channel the loop is at.  Peak/Attack with
\* Attack = 0 panics in the switch, after the slides are written.
TickSlides ==
    /\ fault = "none"
    /\ ctl.pc = "slides"
    /\ LET c == Ch[ctl.ti] IN
       IF EnvFault(c)
       THEN /\ Ch' = [Ch EXCEPT ![ctl.ti] = tickFade(c)]
            /\ fault' = "Attack"
            /\ UNCHANGED <<m, chans, ctl, wrk, out, env, g>>
       ELSE /\ Ch' = [Ch EXCEPT ![ctl.ti] = tickSlides(c)]
            /\ ctl' = [ctl EXCEPT !.pc = "tremolo"]
            /\ UNCHANGED <<m, chans, wrk, out, fault, env, g>>

\* tick, lines 180-184.
TickTremolo ==
    /\ fault = "none"
    /\ ctl.pc = "tremolo"
    /\ Ch' = [Ch EXCEPT ![ctl.ti] = tickTremolo(Ch[ctl.ti])]
    /\ ctl' = [ctl EXCEPT !.pc = "delaynote"]
    /\ UNCHANGED <<m, chans, wrk, out, fault, env, g>>

\* tick, lines 186-195: the vibrato and the delay request in note units.
TickDelayNote ==
    /\ fault = "none"
    /\ ctl.pc = "delaynote"
    /\ LET c == tickVibrato(Ch[ctl.ti]) IN
       \E d \in DelayAfterNote(c, m) :
           /\ Ch' = [Ch EXCEPT ![ctl.ti] =
                        [c EXCEPT !.delay = d,
                                  !.DelayNote = ClearSlot(c.DelayNote, "int32")]]
           /\ ctl' = [ctl EXCEPT !.pc = "delayticks", !.vib = VibratoOut(c)]
    /\ UNCHANGED <<m, chans, wrk, out, fault, env, g>>

\* tick, lines 196-201: the delay request in ticks.
TickDelayTicks ==
    /\ fault = "none"
    /\ ctl.pc = "delayticks"
    /\ LET c == Ch[ctl.ti] IN
       IF DelayTicksFault(c, m) # "none" THEN Panic(DelayTicksFault(c, m))
       ELSE /\ Ch' = [Ch EXCEPT ![ctl.ti] = tickDelayTicks(c, m)]
            /\ ctl' = [ctl EXCEPT !.pc = "filter"]
            /\ UNCHANGED <<m, chans, wrk, out, fault, env, g>>

\* tick, lines 204-206: the filter width.
TickFilter ==
    /\ fault = "none"
    /\ ctl.pc = "filter"
    /\ Ch' = [Ch EXCEPT ![ctl.ti] = tickFilter(Ch[ctl.ti])]
    /\ ctl' = [ctl EXCEPT !.pc = "period"]
    /\ UNCHANGED <<m, chans, wrk, out, fault, env, g>>

\* tick, line 209: the pitch, and on to the next channel.
TickPeriod ==
    /\ fault = "none"
    /\ ctl.pc = "period"
    /\ LET c == Ch[ctl.ti] IN
       IF m.srate = 0 THEN Panic("srate")
       ELSE /\ \E p \in Period(c.Len, AddI32(c.Note, ctl.vib), m) :
                  Ch' = [Ch EXCEPT ![ctl.ti].period = p]
            /\ ctl' = IF ctl.ti = 2 * NumChans - 1
                      THEN [ctl EXCEPT !.pc = "tickend", !.vib = 0]
                      ELSE [ctl EXCEPT !.pc = "slides", !.ti = @ + 1, !.vib = 0]
            /\ UNCHANGED <<m, chans, wrk, out, fault, env, g>>

\* tick, after its loop: the next tick's time and the tick countdown.
TickEnd ==
    /\ fault = "none"
    /\ ctl.pc = "tickend"
    /\ IF m.BPM = 0 THEN Panic("BPM")
       ELSE IF m.TickRate = 0 THEN Panic("TickRate")
       ELSE /\ m' = [m EXCEPT !.nextTick = NextTickAfter(m),
                              !.tickCount = AddI32(@, 1)]
            /\ ctl' = [ctl EXCEPT !.pc = "seq"]
            /\ g' = [g EXCEPT !.ticksSince = @ + 1, !.ticks = @ + 1,
                              !.retrig = {}, !.retrigMore = {}]
            /\ UNCHANGED <<Ch, chans, wrk, out, fault, env>>

-----------------------------------------------------------------------------
(* startPair: the pair worker (part_000:216-279)                            *)

HistAt(c, k) == IF k \in DOMAIN c.hist THEN c.hist[k] ELSE 0

HistPut(c, k, v) ==
    LET keep == (DOMAIN c.hist) \ {k}
        dom  == IF v = 0 THEN keep ELSE keep \cup {k}
    IN  [j \in dom |-> IF j = k THEN v ELSE c.hist[j]]

\* Whether the mode read by the switch is one of the three named cases.
Named(mode) == mode \in {PairSync, PairPM, PairAM}

\* (mutant) the phase advanced without the modulo.
phase_unwrapped(c, ph, per) == [c EXCEPT !.Phase = AddI32(ph, per)]

\* The closure phase, line 219: the channel after the store, ph and per
\* being the phase and the period read before (Len # 0).
phase(c, ph, per) == [c EXCEPT !.Phase = UMod(AddI32(ph, per), c.Len)]

\* Whether ph + per reaches len, in unsigned 32 bits.
ReachesLen(ph, per, len) == ~ULt(AddI32(ph, per), len)

\* (mutant) Sync without the reset of the right oscillator.
SyncReset_never(ph, per, l, r) == r

\* Lines 248-250: the right channel after Sync's reset test, ph and per
\* being the left channel's phase and period read before.
SyncReset(ph, per, l, r) ==
    IF ReachesLen(ph, per, l.Len) THEN [r EXCEPT !.Phase = 0] ELSE r

\* (mutant) the delay line read from the slot about to be written, as the
\* older revision did (mixer.go:156).
delayStart_noOffset(c) == U16(c.histHead - c.delay)

\* Line 224.
delayStart(c) == U16(c.histHead - c.delay - 1)

\* Line 225.
delayEnd(c, ds) == U16(ds - c.FilterLen)

\* Line 226 (FilterLen # 0).
addAvg(c, ds) ==
    [c EXCEPT !.delayAvg = AddI32(@, DivI32(HistAt(c, ds), c.FilterLen))]

\* (mutant) wave without the clamp of the running average.
subAvg_unclamped(c, de) ==
    [c EXCEPT !.delayAvg = SubI32(@, DivI32(HistAt(c, de), c.FilterLen))]

\* Lines 227-228 (FilterLen # 0).
subAvg(c, de) ==
    [c EXCEPT !.delayAvg = clamp16(SubI32(@, DivI32(HistAt(c, de), c.FilterLen)))]

\* Line 231: the local dry, from the generator's value and the volume read
\* before and the tremolo read now.
dryOf(wv, vol, trem) == Shr16(MulI32(wv, AddI32(vol, trem)))

\* Lines 234-235.
store(c, dry) ==
    [c EXCEPT !.hist = HistPut(c, c.histHead,
                               AddI32(dry, Shr16(MulI32(c.delayAvg, c.Feedback)))),
              !.histHead = U16(c.histHead + 1)]

\* Line 236: the dry part of the value wave returns.
dryPart(c, dry) == Shr16(MulI32(dry, c.DryLevel))

\* Lines 236-237: the value wave returns, part being the dry part computed
\* before.
result(c, part) == AddI32(part, Shr16(MulI32(c.delayAvg, c.WetLevel)))

\* The channel whose wave a mode computes first.
FirstWave(mode) == IF mode = PairSync THEN 1 ELSE 0

\* A worker's locals after a call of phase: every mode but PM goes on to
\* the right channel's; then comes Sync's reset test or the first call of
\* wave.
AfterPhase(w) ==
    LET u == [w EXCEPT !.x = 0, !.y = 0] IN
    IF w.side = 0 /\ w.mode # PairPM THEN [u EXCEPT !.pc = "phase", !.side = 1]
    ELSE IF w.mode = PairSync THEN [u EXCEPT !.pc = "sync"]
    ELSE [u EXCEPT !.pc = "call", !.side = FirstWave(w.mode)]

\* (mutant) phase modulation that reads the right channel's own phase.
PhaseArg_own(w, c) == c.Phase

\* The phase a call of wave on channel c is handed (lines 251, 258, 259,
\* 266, 267, 275, 276).
PhaseArg(w, c) == IF w.mode = PairPM /\ w.side = 1 THEN w.lwave ELSE c.Phase

\* (mutant) amplitude modulation that sends the right output unmultiplied.
Combine_separate(w, ret) == ret

\* The value a mode sends once its last call of wave has returned ret.
Combine(w, ret) ==
    IF w.mode = PairAM THEN Shr16(MulI32(w.lwave, ret)) ELSE ret

\* A worker's locals when a call of wave returns ret: PM (258) and AM (266)
\* keep the left result and call wave for the right channel, every other
\* call is followed by a send.
Returned(w, ret) ==
    LET u == [w EXCEPT !.x = 0, !.ph = 0, !.ds = 0, !.de = 0, !.dry = 0] IN
    CASE w.mode = PairPM /\ w.side = 0 ->
            [u EXCEPT !.pc = "call", !.side = 1, !.lwave = AddI32(ret, HalfScale)]
      [] w.mode = PairAM /\ w.side = 0 ->
            [u EXCEPT !.pc = "call", !.side = 1, !.lwave = ret]
      [] OTHER ->
            [u EXCEPT !.pc = "send", !.val = Combine(w, ret)]

\* (mutant) a named mode that sends its result once instead of twice.
AfterSend_once(w) ==
    IF w.sent = 1 \/ Named(w.mode) THEN [NewWorker EXCEPT !.pc = "switch", !.n = w.n]
    ELSE [w EXCEPT !.sent = 1, !.pc = "call", !.side = 1, !.val = 0]

\* A worker's locals after a send: after the second the loop starts over;
\* after the first a named mode sends the same value again, and Stereo calls
\* wave for the right channel.
AfterSend(w) ==
    IF w.sent = 1 THEN [NewWorker EXCEPT !.pc = "switch", !.n = w.n]
    ELSE IF Named(w.mode) THEN [w EXCEPT !.sent = 1]
    ELSE [w EXCEPT !.sent = 1, !.pc = "call", !.side = 1, !.val = 0]

\* The channel the call a worker is in works on.
Callee(i) == 2 * i + wrk[i].side

\* Line 243: the switch reads the left channel's pair mode.
WSwitch(i) ==
    /\ fault = "none"
    /\ wrk[i].pc = "switch"
    /\ wrk' = [wrk EXCEPT ![i] = [@ EXCEPT !.pc = "phase", !.n = @ + 1,
                                           !.mode = Ch[2 * i].PairMode]]
    /\ UNCHANGED <<m, Ch, chans, ctl, out, fault, env, g>>

\* A call of phase (lines 246, 247, 257, 264, 265, 273, 274) begins: line
\* 219 reads c.Phase.
WPhaseLoad(i) ==
    /\ fault = "none"
    /\ wrk[i].pc = "phase"
    /\ wrk' = [wrk EXCEPT ![i].pc = "phasePer", ![i].x = Ch[Callee(i)].Phase]
    /\ UNCHANGED <<m, Ch, chans, ctl, out, fault, env, g>>

\* Line 219 reads c.period.
WPhasePeriod(i) ==
    /\ fault = "none"
    /\ wrk[i].pc = "phasePer"
    /\ wrk' = [wrk EXCEPT ![i].pc = "phaseLen", ![i].y = Ch[Callee(i)].period]
    /\ UNCHANGED <<m, Ch, chans, ctl, out, fault, env, g>>

\* Line 219 reads c.Len, takes the remainder and writes c.Phase.
WPhase(i) ==
    /\ fault = "none"
    /\ wrk[i].pc = "phaseLen"
    /\ LET c == Ch[Callee(i)] IN
       IF c.Len = 0 THEN Panic("Len")
       ELSE /\ Ch' = [Ch EXCEPT ![Callee(i)] = phase(c, wrk[i].x, wrk[i].y)]
            /\ wrk' = [wrk EXCEPT ![i] = AfterPhase(@)]
            /\ g' = IF wrk[i].side = 1 THEN g
                    ELSE [g EXCEPT !.wrapped =
                             IF ReachesLen(wrk[i].x, wrk[i].y, c.Len)
                             THEN @ \cup {i} ELSE @ \ {i}]
            /\ UNCHANGED <<m, chans, ctl, out, fault, env>>

\* Sync's reset test begins: line 248 reads l.Phase.
WSyncLoad(i) ==
    /\ fault = "none"
    /\ wrk[i].pc = "sync"
    /\ wrk' = [wrk EXCEPT ![i].pc = "syncPer", ![i].x = Ch[2 * i].Phase]
    /\ UNCHANGED <<m, Ch, chans, ctl, out, fault, env, g>>

\* Line 248 reads l.period.
WSyncPeriod(i) ==
    /\ fault = "none"
    /\ wrk[i].pc = "syncPer"
    /\ wrk' = [wrk EXCEPT ![i].pc = "syncLen", ![i].y = Ch[2 * i].period]
    /\ UNCHANGED <<m, Ch, chans, ctl, out, fault, env, g>>

\* Line 248 reads l.Len and compares; line 249 writes r.Phase.
WSync(i) ==
    /\ fault = "none"
    /\ wrk[i].pc = "syncLen"
    /\ Ch' = [Ch EXCEPT ![2 * i + 1] =
                 SyncReset(wrk[i].x, wrk[i].y, Ch[2 * i], @)]
    /\ wrk' = [wrk EXCEPT ![i].pc = "call", ![i].x = 0, ![i].y = 0]
    /\ UNCHANGED <<m, chans, ctl, out, fault, env, g>>

\* A call of wave begins: its argument is evaluated.
WCall(i) ==
    /\ fault = "none"
    /\ wrk[i].pc = "call"
    /\ wrk' = [wrk EXCEPT ![i].pc = "w224",
                          ![i].ph = PhaseArg(wrk[i], Ch[Callee(i)])]
    /\ UNCHANGED <<m, Ch, chans, ctl, out, fault, env, g>>

\* wave, line 224.
W224(i) ==
    /\ fault = "none"
    /\ wrk[i].pc = "w224"
    /\ wrk' = [wrk EXCEPT ![i].pc = "w225", ![i].ds = delayStart(Ch[Callee(i)])]
    /\ UNCHANGED <<m, Ch, chans, ctl, out, fault, env, g>>

\* wave, line 225.
W225(i) ==
    /\ fault = "none"
    /\ wrk[i].pc = "w225"
    /\ wrk' = [wrk EXCEPT ![i].pc = "w226",
                          ![i].de = delayEnd(Ch[Callee(i)], wrk[i].ds)]
    /\ UNCHANGED <<m, Ch, chans, ctl, out, fault, env, g>>

\* wave, line 226.
W226(i) ==
    /\ fault = "none"
    /\ wrk[i].pc = "w226"
    /\ LET c == Ch[Callee(i)] IN
       IF c.FilterLen = 0 THEN Panic("FilterLen")
       ELSE /\ Ch' = [Ch EXCEPT ![Callee(i)] = addAvg(c, wrk[i].ds)]
            /\ wrk' = [wrk EXCEPT ![i].pc = "w227"]
            /\ UNCHANGED <<m, chans, ctl, out, fault, env, g>>

\* wave, lines 227-228.
W227(i) ==
    /\ fault = "none"
    /\ wrk[i].pc = "w227"
    /\ LET c == Ch[Callee(i)] IN
       IF c.FilterLen = 0 THEN Panic("FilterLen")
       ELSE /\ Ch' = [Ch EXCEPT ![Callee(i)] = subAvg(c, wrk[i].de)]
            /\ wrk' = [wrk EXCEPT ![i].pc = "w231"]
            /\ UNCHANGED <<m, chans, ctl, out, fault, env, g>>

\* wave, line 231: c.Wave is read and the generator called.
W231Wave(i) ==
    /\ fault = "none"
    /\ wrk[i].pc = "w231"
    /\ wrk' = [wrk EXCEPT ![i].pc = "w231vol",
                          ![i].x = waveGen(Ch[Callee(i)].Wave, wrk[i].ph)]
    /\ UNCHANGED <<m, Ch, chans, ctl, out, fault, env, g>>

\* wave, line 231: c.Vol is read.
W231Vol(i) ==
    /\ fault = "none"
    /\ wrk[i].pc = "w231vol"
    /\ wrk' = [wrk EXCEPT ![i].pc = "w231trem", ![i].y = Ch[Callee(i)].Vol]
    /\ UNCHANGED <<m, Ch, chans, ctl, out, fault, env, g>>

\* wave, line 231: c.tremoloOut is read and dry computed.
W231(i) ==
    /\ fault = "none"
    /\ wrk[i].pc = "w231trem"
    /\ wrk' = [wrk EXCEPT ![i].pc = "w234", ![i].x = 0, ![i].y = 0,
                          ![i].dry = dryOf(wrk[i].x, wrk[i].y,
                                           Ch[Callee(i)].tremoloOut)]
    /\ UNCHANGED <<m, Ch, chans, ctl, out, fault, env, g>>

\* wave, lines 234-235.
W234(i) ==
    /\ fault = "none"
    /\ wrk[i].pc = "w234"
    /\ Ch' = [Ch EXCEPT ![Callee(i)] = store(@, wrk[i].dry)]
    /\ wrk' = [wrk EXCEPT ![i].pc = "w236"]
    /\ UNCHANGED <<m, chans, ctl, out, fault, env, g>>

\* wave, line 236: c.DryLevel is read and the dry part computed.
W236(i) ==
    /\ fault = "none"
    /\ wrk[i].pc = "w236"
    /\ wrk' = [wrk EXCEPT ![i].pc = "w237",
                          ![i].x = dryPart(Ch[Callee(i)], wrk[i].dry)]
    /\ UNCHANGED <<m, Ch, chans, ctl, out, fault, env, g>>

\* wave, line 237: c.WetLevel is read, and what the caller does with the
\* value returned.
W237(i) ==
    /\ fault = "none"
    /\ wrk[i].pc = "w237"
    /\ wrk' = [wrk EXCEPT ![i] = Returned(@, result(Ch[Callee(i)], wrk[i].x))]
    /\ UNCHANGED <<m, Ch, chans, ctl, out, fault, env, g>>

\* m.chans[i] <- value: blocks while the queue is full.
WSend(i) ==
    /\ fault = "none"
    /\ wrk[i].pc = "send"
    /\ Len(chans[i]) < QueueCap
    /\ chans' = [chans EXCEPT ![i] =
                    Append(@, [v |-> wrk[i].val, step |-> wrk[i].n - 1,
                               side |-> IF wrk[i].sent = 0 THEN "L" ELSE "R"])]
    /\ wrk' = [wrk EXCEPT ![i] = AfterSend(@)]
    /\ UNCHANGED <<m, Ch, ctl, out, fault, env, g>>

-----------------------------------------------------------------------------
(* Start: the control loop (part_000:117-150)                               *)

\* Start(output, srate): keep the sample rate and launch the workers.
Start ==
    /\ fault = "none"
    /\ ctl.pc = "start"
    /\ m' = [m EXCEPT !.srate = env.srate]
    /\ wrk' = [i \in Pairs |-> [wrk[i] EXCEPT !.pc = "switch"]]
    /\ ctl' = [ctl EXCEPT !.pc = "top"]
    /\ UNCHANGED <<Ch, chans, out, fault, env, g>>

\* The top of an iteration: is a tick due?
CtlTop ==
    /\ fault = "none"
    /\ ctl.pc = "top"
    /\ ULt(m.count, MaxCount)
    /\ ctl' = [ctl EXCEPT !.pc = IF m.count = m.nextTick THEN "slides" ELSE "seq",
                          !.ti = 0]
    /\ g' = [g EXCEPT !.ticked = (m.count = m.nextTick), !.got = << >>]
    /\ UNCHANGED <<m, Ch, chans, wrk, out, fault, env>>

\* Whether the sequencer callback is due.
SeqDue(mm) == ~ULt(mm.tickCount, mm.TickSpeed)

\* (mutant) a callback that leaves the countdown as it is.
AfterSeq_noReset(mm) == mm

\* The countdown after a callback.
AfterSeq(mm) == [mm EXCEPT !.tickCount = 0]

\* Line 135: the callback test; when it is due the callback is entered.
SeqCheck ==
    /\ fault = "none"
    /\ ctl.pc = "seq"
    /\ IF SeqDue(m)
       THEN /\ ctl' = [ctl EXCEPT !.pc = "callback", !.n = 0,
                          !.prog = IF env.song = << >> THEN << >> ELSE Head(env.song)]
            /\ env' = [env EXCEPT !.song = IF @ = << >> THEN @ ELSE Tail(@)]
            /\ g' = [g EXCEPT !.seqCalls = @ + 1, !.written = {},
                              !.retrig = {}, !.retrigMore = {}]
       ELSE /\ ctl' = [ctl EXCEPT !.pc = "recvL", !.ri = 0, !.mixL = 0, !.mixR = 0]
            /\ UNCHANGED <<env, g>>
    /\ UNCHANGED <<m, Ch, chans, wrk, out, fault>>

\* Lines 136-137: the callback's next statement, or, when it has none left,
\* its return and the reset of the countdown.
SeqRun ==
    /\ fault = "none"
    /\ ctl.pc = "callback"
    /\ IF ctl.prog = << >>
       THEN /\ m' = AfterSeq(m)
            /\ ctl' = [ctl EXCEPT !.pc = "recvL", !.n = 0,
                                  !.ri = 0, !.mixL = 0, !.mixR = 0]
            /\ g' = [g EXCEPT !.ticksSince = 0]
            /\ UNCHANGED <<Ch, fault>>
       ELSE IF OutOfRange(Head(ctl.prog))
       THEN /\ fault' = "index"
            /\ UNCHANGED <<m, Ch, ctl, g>>
       ELSE LET st == Write([m |-> m, Ch |-> Ch, n |-> ctl.n], Head(ctl.prog)) IN
            /\ m' = st.m
            /\ Ch' = st.Ch
            /\ ctl' = [ctl EXCEPT !.prog = Tail(@), !.n = st.n]
            /\ g' = Noted(g, Head(ctl.prog), Ch)
            /\ UNCHANGED fault
    /\ UNCHANGED <<chans, wrk, out, env>>

\* v * MVol >> 16, as the mix computes it.
Scaled(v, mvol) == Shr16(MulI32(v, mvol))

\* mixL += <-m.chans[i] * m.Ch[i*2].MVol >> 16: blocks while the queue is empty.
RecvL ==
    /\ fault = "none"
    /\ ctl.pc = "recvL"
    /\ chans[ctl.ri] # << >>
    /\ LET e == Head(chans[ctl.ri]) IN
       /\ ctl' = [ctl EXCEPT !.pc = "recvR",
                     !.mixL = AddI32(@, Scaled(e.v, Ch[2 * ctl.ri].MVol))]
       /\ g' = [g EXCEPT !.got = Append(@, [p |-> ctl.ri, v |-> e.v,
                                            step |-> e.step, side |-> e.side])]
    /\ chans' = [chans EXCEPT ![ctl.ri] = Tail(@)]
    /\ UNCHANGED <<m, Ch, wrk, out, fault, env>>

\* mixR += <-m.chans[i] * m.Ch[i*2+1].MVol >> 16, and the next pair.
RecvR ==
    /\ fault = "none"
    /\ ctl.pc = "recvR"
    /\ chans[ctl.ri] # << >>
    /\ LET e == Head(chans[ctl.ri]) IN
       /\ ctl' = [ctl EXCEPT !.pc = IF ctl.ri = NumChans - 1 THEN "emitL" ELSE "recvL",
                     !.ri = IF ctl.ri = NumChans - 1 THEN @ ELSE @ + 1,
                     !.mixR = AddI32(@, Scaled(e.v, Ch[2 * ctl.ri + 1].MVol))]
       /\ g' = [g EXCEPT !.got = Append(@, [p |-> ctl.ri, v |-> e.v,
                                            step |-> e.step, side |-> e.side])]
    /\ chans' = [chans EXCEPT ![ctl.ri] = Tail(@)]
    /\ UNCHANGED <<m, Ch, wrk, out, fault, env>>

\* The caller comes to a receive from output (it may never do).
Receive ==
    /\ fault = "none"
    /\ ~env.recv
    /\ env' = [env EXCEPT !.recv = TRUE]
    /\ UNCHANGED <<m, Ch, chans, ctl, wrk, out, fault, g>>

\* The value sent for a mix.
Sample(mix) == I16(clamp16(mix))

\* Line 145, output <- int16(clamp16(mixL)): waits for the caller.
EmitL ==
    /\ fault = "none"
    /\ ctl.pc = "emitL"
    /\ env.recv
    /\ out' = [out EXCEPT !.L = Sample(ctl.mixL)]
    /\ env' = [env EXCEPT !.recv = FALSE]
    /\ ctl' = [ctl EXCEPT !.pc = "emitR"]
    /\ UNCHANGED <<m, Ch, chans, wrk, fault, g>>

\* Line 146, output <- int16(clamp16(mixR)): waits for the caller.
EmitR ==
    /\ fault = "none"
    /\ ctl.pc = "emitR"
    /\ env.recv
    /\ out' = [out EXCEPT !.R = Sample(ctl.mixR)]
    /\ env' = [env EXCEPT !.recv = FALSE]
    /\ ctl' = [ctl EXCEPT !.pc = "count"]
    /\ UNCHANGED <<m, Ch, chans, wrk, fault, g>>

\* Line 147, m.count++.
Count ==
    /\ fault = "none"
    /\ ctl.pc = "count"
    /\ m' = [m EXCEPT !.count = AddI32(@, 1)]
    /\ ctl' = [ctl EXCEPT !.pc = "top"]
    /\ UNCHANGED <<Ch, chans, wrk, out, fault, env, g>>

Next ==
    \/ Start
    \/ CtlTop
    \/ TickSlides
    \/ TickTremolo
    \/ TickDelayNote
    \/ TickDelayTicks
    \/ TickFilter
    \/ TickPeriod
    \/ TickEnd
    \/ SeqCheck
    \/ SeqRun
    \/ RecvL
    \/ RecvR
    \/ EmitL
    \/ EmitR
    \/ Count
    \/ Receive
    \/ \E i \in Pairs : WSwitch(i)
    \/ \E i \in Pairs : WPhaseLoad(i)
    \/ \E i \in Pairs : WPhasePeriod(i)
    \/ \E i \in Pairs : WPhase(i)
    \/ \E i \in Pairs : WSyncLoad(i)
    \/ \E i \in Pairs : WSyncPeriod(i)
    \/ \E i \in Pairs : WSync(i)
    \/ \E i \in Pairs : WCall(i)
    \/ \E i \in Pairs : W224(i)
    \/ \E i \in Pairs : W225(i)
    \/ \E i \in Pairs : W226(i)
    \/ \E i \in Pairs : W227(i)
    \/ \E i \in Pairs : W231Wave(i)
    \/ \E i \in Pairs : W231Vol(i)
    \/ \E i \in Pairs : W231(i)
    \/ \E i \in Pairs : W234(i)
    \/ \E i \in Pairs : W236(i)
    \/ \E i \in Pairs : W237(i)
    \/ \E i \in Pairs : WSend(i)

-----------------------------------------------------------------------------
(* The sessions checked                                                     *)

\* Both channels audible and with a valid filter width before Start.
Audible == WrPair(0, "FilterLen", 1) \o WrPair(0, "Vol", FullScale)

\* Both channels with a valid filter width before Start (and silent).
Filtered == WrPair(0, "FilterLen", 1)

\* A callback after every tick.
EveryTick == WrM("TickSpeed", 1)

\* A session every specification below has besides its own: the pair in
\* Sync mode, so that the worker goes through the reset test of lines
\* 248-250 in each of them.  At 569 Hz a tick lasts 11 samples.
SyncSession ==
    Session(Filtered \o WrCh(0, "PairMode", PairSync), 569, << >>)

\* Spec: an untouched mixer; a session whose sequencer switches the pair to
\* phase modulation and shortens the right wave, then sets the left wave's
\* length to 0; one that configures an envelope with no attack rate; and
\* one in amplitude modulation.
Sessions ==
    { Session(<< >>, 48, << >>),
      Session(Audible \o EveryTick, 96,
              << WrCh(0, "PairMode", PairPM) \o WrCh(1, "Len", 256),
                 WrCh(0, "Len", 0) >>),
      Session(Filtered \o WrCh(1, "Release", 1) \o WrCh(1, "NoteOn", TRUE),
              48, << >>),
      Session(Audible \o WrCh(0, "PairMode", PairAM), 569, << >>),
      SyncSession }

Init == InitWith(Sessions)
Spec == Init /\ [][Next]_vars

\* SpecSched: sessions about the timing of ticks and callbacks: a callback
\* every 2 ticks that halves the tempo, and one that sets TickSpeed to 0.
SchedSessions ==
    { Session(Filtered \o WrM("TickSpeed", 2), 48, << WrM("BPM", 60) >>),
      Session(Filtered \o EveryTick, 96, << WrM("TickSpeed", 0) >>),
      SyncSession }

InitSched == InitWith(SchedSessions)
SpecSched == InitSched /\ [][Next]_vars

\* SpecLoud: every level at 100%: a full-scale constant wave, with the delay
\* line's wet signal mixed in at full level.
Loud == WrPair(0, "FilterLen", 1) \o WrPair(0, "Vol", FullScale)
           \o WrPair(0, "Wave", 2) \o WrPair(0, "WetLevel", FullScale)
           \o WrPair(0, "MVol", FullScale) \o EveryTick

LoudSessions == { Session(Loud, 48, << >>), SyncSession }

InitLoud == InitWith(LoudSessions)
SpecLoud == InitLoud /\ [][Next]_vars

\* Every wave silent, a valid filter width, and a callback after every tick.
Silent == WrPair(0, "FilterLen", 1) \o WrPair(0, "Wave", 3) \o EveryTick

\* SpecEnv: envelopes: a sane one (the note released by the sequencer), and
\* one whose attack rate is the largest int32.
EnvSane == WrCh(0, "Release", 16384) \o WrCh(0, "Attack", 49152)
             \o WrCh(0, "Peak", FullScale) \o WrCh(0, "Decay", 8192)
             \o WrCh(0, "Sustain", 32768) \o WrCh(0, "NoteOn", TRUE)

EnvHuge == WrCh(0, "Release", 1) \o WrCh(0, "Attack", MaxI32)
             \o WrCh(0, "Peak", MaxI32) \o WrCh(0, "Vol", 1)
             \o WrCh(0, "NoteOn", TRUE)

EnvSessions ==
    { Session(Filtered \o EnvSane \o WrM("TickSpeed", 2), 48,
              << WrCh(0, "NoteOn", FALSE) >>),
      Session(Filtered \o EnvHuge, 48, << >>),
      SyncSession }

InitEnv == InitWith(EnvSessions)
SpecEnv == InitEnv /\ [][Next]_vars

\* SpecVol: post-effect volumes, with a tick and a callback at every sample:
\* the left one faded beyond the largest int32, the right one faded below
\* zero by the second tick and written negative by the second callback.
VolSessions ==
    { Session(Silent \o WrCh(0, "MVol", MaxI32) \o WrCh(0, "Fade", 1)
                     \o WrCh(1, "Fade", -20000),
              48, << << >>, WrCh(1, "MVol", -1) >>),
      SyncSession }

InitVol == InitWith(VolSessions)
SpecVol == InitVol /\ [][Next]_vars

\* SpecModes: the pair in each of the three named modes, at a sample rate
\* that makes the period (30086) a little less than half the wave length.
\* Sync and phase modulation with sawtooth waves, the right wave of the Sync
\* pair half as long; amplitude modulation with constant waves, the right
\* one at half volume and half as long; and a Stereo pair of sawtooth waves
\* with the delay line mixed in at 50%.
Saws == WrPair(0, "FilterLen", 1) \o WrPair(0, "Vol", FullScale)
          \o WrPair(0, "Wave", 1)

Levels == WrPair(0, "FilterLen", 1) \o WrPair(0, "Wave", 2)
            \o WrCh(0, "Vol", FullScale) \o WrCh(1, "Vol", HalfScale)
            \o WrCh(1, "Len", HalfScale)

ModeSessions ==
    { Session(Saws \o WrCh(0, "PairMode", PairSync) \o WrCh(1, "Len", HalfScale),
              569, << >>),
      Session(Saws \o WrCh(0, "PairMode", PairPM), 569, << >>),
      Session(Levels \o WrCh(0, "PairMode", PairAM) \o EveryTick, 569, << >>),
      Session(Saws \o WrPair(0, "WetLevel", HalfScale), 569, << >>) }

InitModes == InitWith(ModeSessions)
SpecModes == InitModes /\ [][Next]_vars

\* SpecPair: a sequencer that calls OnPair: it raises the notes of the pair
\* by an octave, then hands OnPair a closure that counts its invocations,
\* then lowers the post-effect volumes.  And one that adds 65535 to the
\* filter widths, which wraps them from 1 to 0, and then 1 to the wave
\* indices.
PairSessions ==
    { Session(Filtered \o EveryTick, 48,
              << OnPair(0, Op("add", "Note", 12 * W16)),
                 OnPair(0, Op("stamp", "Tremolo", 0)),
                 OnPair(0, Op("add", "MVol", -HalfScale)) >>),
      Session(Filtered \o EveryTick, 48,
              << OnPair(0, Op("add", "FilterLen", W16 - 1)),
                 OnPair(0, Op("add", "Wave", 1)) >>),
      SyncSession }

InitPair == InitWith(PairSessions)
SpecPair == InitPair /\ [][Next]_vars

\* SpecAdsr: envelopes, ticked three times with a callback after every
\* tick; every wave silent.  Two sessions with a channel in each case of the
\* envelope: none configured and released (neither with an attack rate),
\* attacking up to the cap and then decaying, and sustained.  And two in
\* which the sequencer releases the notes after the first tick and sets them
\* again after the second: one whose left channel reaches its peak position
\* after 2 ticks and its right one after 6, and one in which the sequencer
\* writes EnvPos = 0 with the flag.
EnvIdle == WrCh(0, "Vol", 5) \o WrCh(1, "Release", 1000) \o WrCh(1, "Vol", 1500)

EnvBusy ==
    WrCh(0, "Release", 1) \o WrCh(0, "NoteOn", TRUE) \o WrCh(0, "Attack", 40000)
      \o WrCh(0, "Peak", 80000) \o WrCh(0, "Decay", 30000)
      \o WrCh(0, "Sustain", 45000)
      \o WrCh(1, "Release", 1) \o WrCh(1, "NoteOn", TRUE) \o WrCh(1, "Attack", 1)
      \o WrCh(1, "Sustain", 100) \o WrCh(1, "Vol", 50)

\* An envelope with a note on: release rate 10000, decay rate 5000.
EnvNote(c, attack, peak) ==
    WrCh(c, "Release", 10000) \o WrCh(c, "NoteOn", TRUE)
      \o WrCh(c, "Attack", attack) \o WrCh(c, "Peak", peak)
      \o WrCh(c, "Decay", 5000)

NotesOff == WrCh(0, "NoteOn", FALSE) \o WrCh(1, "NoteOn", FALSE)
NotesOn  == WrCh(0, "NoteOn", TRUE) \o WrCh(1, "NoteOn", TRUE)
NotesOnReset == NotesOn \o WrCh(1, "EnvPos", 0)

AdsrSessions ==
    { Session(Silent \o EnvIdle, 48, << >>),
      Session(Silent \o EnvBusy, 48, << >>),
      Session(Silent \o EnvNote(0, 30000, 60000) \o EnvNote(1, 10000, 60000),
              48, <<NotesOff, NotesOn>>),
      Session(Silent \o EnvNote(0, 30000, 60000) \o EnvNote(1, 30000, 60000),
              48, <<NotesOff, NotesOnReset>>),
      SyncSession }

InitAdsr == InitWith(AdsrSessions)
SpecAdsr == InitAdsr /\ [][Next]_vars

\* SpecDelay: delay requests, with a tick and a callback at every sample
\* (48 Hz, so that a tick lasts 1 sample and the note 0, 8.18 Hz, 5
\* samples).  In one session the left channel asks for 2 ticks before Start
\* and for 1 tick in the second callback, and the right one for 3 ticks and
\* for the note 0 at once.  In another the first callback asks for the note
\* 0 on the left channel and stores the untyped constant 2 (an int) in the
\* right channel's DelayTicks.  In the last, at 48 kHz, the left channel
\* asks before Start for a note whose length does not fit 16 bits, the note
\* -72 (0.128 Hz, 375 743 samples), and the right one for the note 0 (5870
\* samples, which does fit).  And one at 4 037 140 183 Hz (-257827113 as
\* the int32 with its bits) whose channels ask for the notes 75 and 63, half
\* an octave above and below 440 Hz: about 6.5 and 13 million samples.
Requests ==
    WrCh(0, "DelayTicks", Dyn("uint32", 2))
      \o WrCh(1, "DelayTicks", Dyn("uint32", 3))
      \o WrCh(1, "DelayNote", Dyn("int32", 0))

DelaySessions ==
    { Session(Silent \o Requests, 48,
              << << >>, WrCh(0, "DelayTicks", Dyn("uint32", 1)) >>),
      Session(Silent, 48,
              << WrCh(0, "DelayNote", Dyn("int32", 0))
                   \o WrCh(1, "DelayTicks", Dyn("int", 2)) >>),
      Session(Silent \o WrCh(0, "DelayNote", Dyn("int32", -72 * W16))
                     \o WrCh(1, "DelayNote", Dyn("int32", 0)),
              48000, << >>),
      Session(Silent \o WrCh(0, "DelayNote", Dyn("int32", 75 * W16))
                     \o WrCh(1, "DelayNote", Dyn("int32", 63 * W16)),
              -257827113, << >>),
      SyncSession }

InitDelay == InitWith(DelaySessions)
SpecDelay == InitDelay /\ [][Next]_vars

\* SpecFilter: the delay line fed by a quiet sawtooth wave (within
\* -128..127) on the left channel, filter width 1 and no delay before
\* Start.  The first callback widens the left channel's filter to 2, the
\* second asks for a delay of 1 tick on the right channel.
Quiet == WrPair(0, "FilterLen", 1) \o WrPair(0, "Wave", 1)
           \o WrCh(0, "Vol", 256) \o EveryTick

FilterSessions ==
    { Session(Quiet, 48,
              << WrCh(0, "FilterLen", 2),
                 WrCh(1, "DelayTicks", Dyn("uint32", 1)) >>),
      SyncSession }

InitFilter == InitWith(FilterSessions)
SpecFilter == InitFilter /\ [][Next]_vars

\* SpecClamp: the pair plays a constant full-scale wave, the left channel at
\* full volume and the right one at minus full volume, each fed back into
\* its own history and mixed in at the same level: 100% in one session,
\* 300% (where the int32 product of average and level wraps) in the other.
Fed(level) ==
    WrPair(0, "FilterLen", 1) \o WrPair(0, "Wave", 2)
      \o WrCh(0, "Vol", FullScale) \o WrCh(1, "Vol", -FullScale)
      \o WrPair(0, "Feedback", level) \o WrPair(0, "WetLevel", level)

ClampSessions == { Session(Fed(FullScale) \o EveryTick, 48, << >>),
                   Session(Fed(3 * FullScale), 48, << >>),
                   SyncSession }

InitClamp == InitWith(ClampSessions)
SpecClamp == InitClamp /\ [][Next]_vars

\* SpecTempo: tempos too fast for the sample rate, so that
\* 60*srate/BPM/TickRate is 0: a sequencer that sets BPM = 3000 after the
\* first tick at 48 Hz, and a session started at 47 Hz with the tempo
\* NewMixer sets (120 * 24 = 2880 ticks a minute, 2820 samples a minute).
TempoSessions ==
    { Session(Silent, 48, << WrM("BPM", 3000) >>),
      Session(Silent, 47, << >>),
      SyncSession }

InitTempo == InitWith(TempoSessions)
SpecTempo == InitTempo /\ [][Next]_vars

\* SpecPitch: wave lengths around the sample rate (48 Hz).  One session with
\* Len = 40, below it, on the left channel and Len = 90, between once and
\* twice the rate, on the right one; the sequencer moves both notes from C4
\* (60) to A4 (69), and then the left one to A5 (81).  One with the length
\* NewMixer sets (65536) on the left channel and a vibrato whose square wave
\* stays at -32768 with depth 100%, half a semitone down, and Len = 48 on the
\* right one.  One at 96 Hz (a tick every 2 samples) whose left note slides
\* up by one fine-tune step a tick, with Len = 96.  One with 110 points a
\* sample at note 124 (10548.08 Hz, period 1160289) and 512 at note -51
\* (55/128 Hz, 220 exactly).  One at 1 Hz whose product is rounded up to a
\* whole number by the float64 multiplication: 143209737 points at note
\* -30 (1.445 Hz), a little less than 206979703.  And one whose product
\* does not fit 32 bits: 349525 points a sample at note 128.  And one half
\* an octave from 440 Hz, where Pow returns a square root: 1234863 points a
\* sample at note 75 (622.25 Hz, period 768398401) and 2469726 at note 63
\* (311.13 Hz, period 768398400); the sequencer moves the right note to 75
\* (period 1536796802).  And one at the highest note an int32 holds, whose
\* frequency is +Inf: 0 points a sample on the left (the product is NaN)
\* and 1 on the right (+Inf).
PitchSessions ==
    { Session(Silent \o WrCh(0, "Len", 40) \o WrCh(1, "Len", 90), 48,
              << WrPair(0, "Note", 69 * W16), WrCh(0, "Note", 81 * W16) >>),
      Session(Silent \o WrCh(0, "Vibrato", FullScale)
                     \o WrCh(0, "VibratoPhase", MinI32) \o WrCh(1, "Len", 48),
              48, << >>),
      Session(Silent \o WrCh(0, "Slide", 1) \o WrCh(0, "Len", 96), 96, << >>),
      Session(Silent \o WrCh(0, "Len", 143209737) \o WrCh(0, "Note", -30 * W16),
              1, << >>),
      Session(Silent \o WrCh(0, "Len", 110 * 48) \o WrCh(0, "Note", 124 * W16)
                     \o WrCh(1, "Len", 512 * 48) \o WrCh(1, "Note", -51 * W16),
              48, << >>),
      Session(Silent \o WrCh(0, "Len", 256 * W16) \o WrCh(0, "Note", 128 * W16),
              48, << >>),
      Session(Silent \o WrCh(0, "Len", 1234863 * 48) \o WrCh(0, "Note", 75 * W16)
                     \o WrCh(1, "Len", 2469726 * 48) \o WrCh(1, "Note", 63 * W16),
              48, << WrCh(1, "Note", 75 * W16) >>),
      Session(Silent \o WrPair(0, "Note", MaxI32)
                     \o WrCh(0, "Len", 40) \o WrCh(1, "Len", 90), 48, << >>),
      SyncSession }

InitPitch == InitWith(PitchSessions)
SpecPitch == InitPitch /\ [][Next]_vars

\* Whether the control loop can take its next step: it waits at a receive
\* (part_000:142-143) while that pair's queue is empty and at a send
\* (part_000:145-146) until the caller receives; the model follows it for
\* MaxCount frames.
ControlReady ==
    /\ fault = "none"
    /\ ctl.pc \in {"recvL", "recvR"} => chans[ctl.ri] # << >>
    /\ ctl.pc \in {"emitL", "emitR"} => env.recv
    /\ ctl.pc = "top" => ULt(m.count, MaxCount)

\* Whether the worker of pair i can take its next step: once started it
\* waits only at a send (part_000:244-278) while its queue is full.
WorkerReady(i) ==
    /\ fault = "none"
    /\ wrk[i].pc # "idle"
    /\ wrk[i].pc = "send" => Len(chans[i]) < QueueCap

\* The steps of the control loop (one goroutine), and those of the worker
\* of pair i (another).
Control ==
    \/ Start \/ CtlTop \/ TickSlides \/ TickTremolo \/ TickDelayNote
    \/ TickDelayTicks \/ TickFilter \/ TickPeriod \/ TickEnd
    \/ SeqCheck \/ SeqRun \/ RecvL \/ RecvR \/ EmitL \/ EmitR \/ Count
Worker(i) ==
    \/ WSwitch(i) \/ WPhaseLoad(i) \/ WPhasePeriod(i) \/ WPhase(i)
    \/ WSyncLoad(i) \/ WSyncPeriod(i) \/ WSync(i) \/ WCall(i)
    \/ W224(i) \/ W225(i) \/ W226(i) \/ W227(i)
    \/ W231Wave(i) \/ W231Vol(i) \/ W231(i) \/ W234(i)
    \/ W236(i) \/ W237(i) \/ WSend(i)

\* SpecLive: the scheduler lets every goroutine that can run do so
\* eventually, the caller keeps receiving from output, and the sequencer
\* callback returns (its program is finite).  An untouched mixer, and one
\* with the filter widths set before Start.
LiveSessions ==
    { Session(<< >>, 48, << >>),
      Session(Filtered \o EveryTick, 48, << >>),
      SyncSession }

InitLive == InitWith(LiveSessions)
SpecLive ==
    /\ InitLive /\ [][Next]_vars
    /\ WF_vars(Control)
    /\ \A i \in Pairs : WF_vars(Worker(i))
    /\ WF_vars(Receive)
-----------------------------------------------------------------------------
(* Properties                                                               *)

\* The positions of the control loop inside tick.
TickPcs ==
    {"slides", "tremolo", "delaynote", "delayticks", "filter", "period",
     "tickend"}

\* The control loop runs the statement at the given position.
CtlAt(pc) == ctl.pc = pc /\ ctl' # ctl

\* A step of tick: one of its statements, or its panic on Peak/Attack.
TickWrites ==
    ctl.pc \in TickPcs /\ (ctl' # ctl \/ (fault = "none" /\ fault' = "Attack"))

\* The worker of pair i takes a step; it runs the statement at pc.
WorkerMoves(i) == wrk[i].pc # "idle" /\ wrk'[i] # wrk[i]
WAt(i, pc)     == wrk[i].pc = pc /\ wrk'[i] # wrk[i]

\* The worker of pair i ends an iteration (its second send).
WIterDone(i) == WAt(i, "send") /\ wrk[i].sent = 1

\* The control loop enters the sequencer callback.
SeqInvoked == ctl.pc = "seq" /\ ctl'.pc = "callback"

SameFields(c, d, fields) == \A f \in fields : c[f] = d[f]

\* The signed 16-bit range.
InI16(v) == -32768 <= v /\ v <= 32767

\* C1: a tick that fires at sample counter N finds every worker with
\* exactly N iterations begun: sample N of every pair is produced only
\* after the tick's writes.
C1_TickBetweenSamples ==
    ctl.pc \in TickPcs => \A i \in Pairs : wrk[i].n = m.count

\* C2: no worker ever divides by a filter width of 0.
C2_FilterLenNeverZero == fault # "FilterLen"

\* Position k (from 0) of a queue entry in its pair's stream of values.
StreamPos(e) == 2 * e.step + (IF e.side = "L" THEN 0 ELSE 1)

RECURSIVE MixOf(_, _, _)
\* The mix of one side as the control loop builds it from the entries
\* received: entry 2i+1 (left) or 2i+2 (right) scaled by that channel's MVol.
MixOf(got, side, n) ==
    IF n = 0 THEN 0
    ELSE AddI32(MixOf(got, side, n - 1),
                Scaled(got[2 * (n - 1) + 1 + side].v, Ch[2 * (n - 1) + side].MVol))

\* The number of the frame that the entries in g.got belong to (they are
\* kept until the next step starts).
FrameNo == IF ctl.pc = "top" THEN m.count - 1 ELSE m.count

\* C3: a control-loop step takes from every pair's queue, in order, the left
\* and then the right value of one worker iteration, the one numbered like
\* the frame; the queues hold what follows, in order; and each side of the
\* frame is mixed from the values of that side.
C3_FrameFromOneStep ==
    /\ \A k \in 1 .. Len(g.got) :
          /\ g.got[k].p = (k - 1) \div 2
          /\ g.got[k].step = FrameNo
          /\ g.got[k].side = (IF k % 2 = 1 THEN "L" ELSE "R")
    /\ \A i \in Pairs : \A k \in 1 .. Len(chans[i]) :
          StreamPos(chans[i][k]) =
             (IF g.got = << >> THEN 2 * m.count
              ELSE 2 * FrameNo
                   + Cardinality({j \in 1 .. Len(g.got) : g.got[j].p = i}))
             + (k - 1)
    /\ ctl.pc \in {"emitL", "emitR", "count"} =>
          /\ Len(g.got) = 2 * NumChans
          /\ ctl.mixL = MixOf(g.got, 0, NumChans)
          /\ ctl.mixR = MixOf(g.got, 1, NumChans)

\* C3 witness: the third frame is complete, the pair in phase modulation
\* and its values not 0.
C3_Witness ==
    /\ ctl.pc = "count" /\ m.count = 2 /\ Len(g.got) = 2
    /\ Ch[0].PairMode = PairPM /\ g.got[1].v # 0 /\ g.got[2].v # 0
    /\ ctl.mixL # 0

\* C4: a tick fires in exactly the control-loop steps that start with
\* count = nextTick, and moves nextTick on by 60*srate/BPM/TickRate.
C4_TickTiming ==
    [][ /\ CtlAt("top") => (ctl'.pc = "slides" <=> m.count = m.nextTick)
        /\ (ctl' # ctl /\ ctl'.pc = "slides" /\ ctl'.ti = 0) => ctl.pc = "top"
        /\ CtlAt("tickend") =>
              /\ m.count = m.nextTick
              /\ m'.nextTick - m.nextTick = ((60 * m.srate) \div m.BPM) \div m.TickRate
        /\ (ctl.pc # "tickend" => m'.nextTick = m.nextTick)
        /\ TickInterval([srate |-> 48000, BPM |-> 120, TickRate |-> 24]) = 1000
      ]_vars

\* C4 witness: the tempo was halved by the sequencer and the tick at sample
\* 2 has set the next one 2 samples later instead of 1.
C4_Witness ==
    /\ ctl.pc = "seq" /\ g.ticked /\ m.count = 2 /\ m.BPM = 60 /\ m.nextTick = 4

\* C5 as stated: every invocation of the callback comes in a step in which a
\* tick fired, after exactly TickSpeed ticks, before any sample is collected.
C5_CallbackEveryTickSpeed ==
    [][ SeqInvoked => g.ticked /\ g.ticksSince = m.TickSpeed /\ g.got = << >> ]_vars

\* C5 amended: the same while TickSpeed >= 1; the callback is invoked only
\* when due; and with TickSpeed = 0 it is invoked in every step.
C5_CallbackEveryTickSpeedFrom1 ==
    [][ /\ (SeqInvoked /\ m.TickSpeed >= 1) =>
              g.ticked /\ g.ticksSince = m.TickSpeed /\ g.got = << >>
        /\ (g'.seqCalls # g.seqCalls) => SeqInvoked /\ g'.seqCalls = g.seqCalls + 1
        /\ SeqInvoked => SeqDue(m)
        /\ (CtlAt("seq") /\ m.TickSpeed = 0) => SeqInvoked
      ]_vars

\* C5 witness: the first callback, made in the step of the second tick with
\* TickSpeed = 2, has returned.
C5_Witness ==
    /\ ctl.pc = "recvL" /\ g.ticked /\ g.seqCalls = 1 /\ m.count = 1
    /\ m.TickSpeed = 2 /\ m.tickCount = 0 /\ m.BPM = 60

\* floor(a * b / 65536), exactly (no 32-bit wrap).
ExactScaled(a, b) ==
    LET ah == a \div W16   al == a % W16
        bh == b \div W16   bl == b % W16
        a1 == al \div 256  a0 == al % 256
    IN  ah * b + al * bh + ((a1 * bl + (a0 * bl) \div 256) \div 256)

RECURSIVE ExactMix(_, _, _)
ExactMix(got, side, n) ==
    IF n = 0 THEN 0
    ELSE ExactMix(got, side, n - 1)
         + ExactScaled(got[2 * (n - 1) + 1 + side].v, Ch[2 * (n - 1) + side].MVol)

\* C6: every frame emitted is the saturation to 16 bits of the exact sum,
\* over the pairs, of (value received * MVol) >> 16.
C6_OutputSaturatesExactSum ==
    (ctl.pc = "count" /\ Len(g.got) = 2 * NumChans) =>
        /\ out.L = clamp16(ExactMix(g.got, 0, NumChans))
        /\ out.R = clamp16(ExactMix(g.got, 1, NumChans))

\* C7: no value written to a channel parameter other than the filter width
\* makes a tick or a worker step panic.
C7_NoFaultFromParameters == fault \notin {"Attack", "Len"}

\* C8: a tick writes no sample-rate field of any channel; a worker writes no
\* tick-rate field, and nothing of a channel outside its pair.
C8_OwnershipSplit ==
    [][ /\ TickWrites =>
              \A c \in Chs : SameFields(Ch[c], Ch'[c], SampleRateFields)
        /\ \A i \in Pairs : WorkerMoves(i) =>
              /\ \A c \in Chs : SameFields(Ch[c], Ch'[c], TickRateFields)
              /\ \A c \in Chs \ {2 * i, 2 * i + 1} : Ch'[c] = Ch[c]
      ]_vars

\* C8 witness: a tick has set the periods, the worker has stepped and the
\* next tick is writing while both oscillators are under way.
C8_Witness ==
    /\ ctl.pc = "tremolo" /\ ctl.ti = 1 /\ m.count = 2
    /\ Ch[0].Phase > 0 /\ Ch[1].Phase > 0 /\ Ch[1].histHead > 0
    /\ Ch[1].period > 0 /\ wrk[0].pc = "w234"

\* C9: with an envelope configured and non-negative rates, Attack >= 1, the
\* pre-effect volume stays in [0, 0x10000].
C9_EnvelopeBounds ==
    \A c \in Chs :
        (Ch[c].Release >= 1 /\ Ch[c].Attack >= 1 /\ Ch[c].Decay >= 0) =>
            (0 <= Ch[c].Vol /\ Ch[c].Vol <= FullScale)

\* A call of phase by the worker of pair i (line 219): it reads the phase
\* and the period of its channel, one after the other, and then stores
\* their sum modulo the length, in unsigned 32 bits.
Advances(i) ==
    LET c == Ch[Callee(i)] IN
    /\ WAt(i, "phase") => wrk'[i].x = c.Phase
    /\ WAt(i, "phasePer") => wrk'[i].y = c.period /\ wrk'[i].x = wrk[i].x
    /\ WAt(i, "phaseLen") =>
          Ch'[Callee(i)].Phase = UMod(AddI32(wrk[i].x, wrk[i].y), c.Len)

\* 0 <= Phase < Len, in unsigned 32 bits.
PhaseInWave(c) == c.Phase >= 0 /\ ULt(c.Phase, c.Len)

\* C10 as stated: after every worker iteration, 0 <= Phase < Len for both
\* channels of the pair.
C10_PhaseBelowLen ==
    [][ \A i \in Pairs : WIterDone(i) =>
           \A c \in {2 * i, 2 * i + 1} : PhaseInWave(Ch'[c]) ]_vars

\* C10 amended: an iteration advances the left channel's phase and, in every
\* mode but phase modulation, the right one's; 0 <= Phase < Len holds when
\* the advance is made; in phase modulation the worker leaves the right
\* channel's stored phase as it was.
C10_AdvancedPhaseBelowLen ==
    [][ \A i \in Pairs :
           /\ Advances(i)
           /\ WAt(i, "phaseLen") =>
                 /\ PhaseInWave(Ch'[Callee(i)])
                 /\ wrk'[i].pc \in {"call", "sync"} =>
                       (wrk[i].side = 1 <=> wrk[i].mode # PairPM)
                 /\ wrk'[i].pc = "phase" => wrk[i].side = 0 /\ wrk'[i].side = 1
           /\ (WorkerMoves(i) /\ wrk[i].mode = PairPM) =>
                 Ch'[2 * i + 1].Phase = Ch[2 * i + 1].Phase ]_vars

\* C10 witness: an iteration in phase modulation has advanced the left
\* phase, and the right channel's stored phase lies beyond its shortened
\* wave.
C10_Witness ==
    /\ wrk[0].pc = "send" /\ wrk[0].mode = PairPM
    /\ Ch[0].Phase > 0 /\ Ch[0].Phase < Ch[0].Len
    /\ Ch[1].Phase >= Ch[1].Len

\* C11 as stated: every tick sets MVol = max(MVol + Fade, 0), and the MVol
\* by which a received value is scaled is never negative.
C11_MVolNeverNegative ==
    [][ /\ CtlAt("slides") => Ch'[ctl.ti].MVol >= 0
        /\ CtlAt("recvL") => Ch[2 * ctl.ri].MVol >= 0
        /\ CtlAt("recvR") => Ch[2 * ctl.ri + 1].MVol >= 0 ]_vars

\* C11 amended: every tick sets MVol = max(MVol + Fade, 0), the sum taken in
\* wrapping int32; MVol is non-negative in every channel when the tick
\* returns; apart from the tick only the sequencer callback changes it (and
\* what it writes is used as it is until the next tick).
C11_MVolFlooredByTick ==
    [][ /\ CtlAt("slides") =>
              LET sum == AddI32(Ch[ctl.ti].MVol, Ch[ctl.ti].Fade)
              IN  Ch'[ctl.ti].MVol = (IF sum < 0 THEN 0 ELSE sum)
        /\ (CtlAt("seq") /\ g.ticked) => \A c \in Chs : Ch[c].MVol >= 0
        /\ \A c \in Chs : Ch'[c].MVol # Ch[c].MVol =>
              \/ ctl.pc = "slides" /\ ctl.ti = c
              \/ ctl.pc = "callback"
      ]_vars

\* C11 witness: the second frame is being mixed; the ticks have floored the
\* left volume (its sum wrapped; faded up by 1 since) and the right one, and
\* the callback has just written a negative one to the right channel.
C11_Witness ==
    /\ ctl.pc = "recvL" /\ m.count = 1 /\ g.seqCalls = 2
    /\ Ch[0].MVol = 1 /\ Ch[1].MVol = -1

\* The wet signal wave feeds back into the history (part_000:234) and the
\* one it adds to its output (part_000:237), from a running average.
WetBack(c) == Shr16(MulI32(c.delayAvg, c.Feedback))
WetOut(c)  == Shr16(MulI32(c.delayAvg, c.WetLevel))

\* A send of the worker of pair i: the value goes to the end of the pair's
\* queue; after the first send the same value is sent again.
SendsTwice(i) ==
    /\ Len(chans'[i]) = Len(chans[i]) + 1
    /\ chans'[i][Len(chans'[i])].v = wrk[i].val
    /\ IF wrk[i].sent = 0
       THEN wrk'[i].pc = "send" /\ wrk'[i].val = wrk[i].val /\ wrk'[i].sent = 1
       ELSE wrk'[i].pc = "switch"

\* C12 as stated: in a Sync iteration in which left's oscillator wraps (its
\* phase before the advance plus its period reaches its length), right's
\* phase is 0 when right's sample is computed, and the sample is computed at
\* phase 0.
C12_SyncResetsOnWrap ==
    [][ \A i \in Pairs :
           (wrk[i].mode = PairSync /\ WAt(i, "call") /\ i \in g.wrapped) =>
                 Ch[2 * i + 1].Phase = 0 /\ wrk'[i].ph = 0 ]_vars

\* C12 amended: a Sync iteration advances both phases; right's phase is then
\* set to 0 exactly when left's phase after its advance, plus left's period,
\* reaches left's length (left will wrap in the next iteration), and is left
\* as it is otherwise; right's sample is computed at right's phase after
\* that, and is the value sent twice; nothing of the left channel changes
\* after its advance.
C12_SyncResetsBeforeWrap ==
    [][ \A i \in Pairs : (wrk[i].mode = PairSync /\ WorkerMoves(i)) =>
           LET w == wrk[i]         v == wrk'[i]
               l == Ch[2 * i]      r == Ch[2 * i + 1]
               l1 == Ch'[2 * i]    r1 == Ch'[2 * i + 1]
           IN  /\ Advances(i)
               /\ w.pc # "phaseLen" => l1 = l
               /\ w.pc = "sync" => v.x = l.Phase /\ r1 = r
               /\ w.pc = "syncPer" => v.y = l.period /\ v.x = w.x /\ r1 = r
               /\ w.pc = "syncLen" =>
                     /\ r1.Phase = (IF ~ULt(AddI32(w.x, w.y), l.Len) THEN 0
                                    ELSE r.Phase)
                     /\ v.pc = "call" /\ v.side = 1
               /\ w.pc = "call" => w.side = 1 /\ v.ph = r.Phase /\ r1 = r
               /\ w.pc = "w231" => v.x = waveGen(r.Wave, w.ph)
               /\ w.pc = "w231vol" => v.y = r.Vol /\ v.x = w.x
               /\ w.pc = "w231trem" =>
                     v.dry = Shr16(MulI32(w.x, AddI32(w.y, r.tremoloOut)))
               /\ w.pc = "w236" => v.x = Shr16(MulI32(w.dry, r.DryLevel))
               /\ w.pc = "w237" =>
                     /\ w.side = 1 /\ v.pc = "send"
                     /\ v.val = AddI32(w.x, WetOut(r))
               /\ w.pc = "send" => SendsTwice(i) ]_vars

\* C12 witness: a Sync iteration has brought left's phase to 60172, within
\* one period of its length, and reset right's phase; the value to send is
\* the sawtooth at phase 0.
C12_Witness ==
    /\ wrk[0].pc = "send" /\ wrk[0].mode = PairSync
    /\ Ch[0].Phase = 60172 /\ Ch[0].period = 30086
    /\ Ch[1].Phase = 0 /\ Ch[1].period > 0 /\ wrk[0].val = -32768

\* C13: a phase-modulation iteration advances left's phase only; the phase
\* handed to the generator for the right channel is left's output + 0x8000
\* (in 0 .. 0xFFFF when left's output is a signed 16-bit value), not
\* right's stored phase, which stays as it is; the value sent twice is
\* right's result.
C13_PMPhaseFromLeft ==
    [][ \A i \in Pairs : (wrk[i].mode = PairPM /\ WorkerMoves(i)) =>
           LET w == wrk[i]         v == wrk'[i]
               l == Ch[2 * i]      r == Ch[2 * i + 1]
               lout == AddI32(w.x, WetOut(l))
           IN  /\ Ch'[2 * i + 1].Phase = r.Phase
               /\ Advances(i)
               /\ w.pc \in {"phase", "phasePer", "phaseLen"} => w.side = 0
               /\ w.pc = "phaseLen" => v.pc = "call" /\ v.side = 0
               /\ (w.pc = "call" /\ w.side = 0) => v.ph = l.Phase
               /\ (w.pc = "w236" /\ w.side = 0) =>
                     v.x = Shr16(MulI32(w.dry, l.DryLevel))
               /\ (w.pc = "w237" /\ w.side = 0) =>
                     /\ v.pc = "call" /\ v.side = 1
                     /\ v.lwave = AddI32(lout, HalfScale)
                     /\ InI16(lout) =>
                           (v.lwave = lout + 32768 /\ v.lwave \in 0 .. 65535)
               /\ (w.pc = "call" /\ w.side = 1) => v.ph = w.lwave
               /\ (w.pc = "w231" /\ w.side = 1) =>
                     v.x = waveGen(r.Wave, w.lwave) /\ w.ph = w.lwave
               /\ (w.pc = "w231vol" /\ w.side = 1) => v.y = r.Vol /\ v.x = w.x
               /\ (w.pc = "w231trem" /\ w.side = 1) =>
                     v.dry = Shr16(MulI32(w.x, AddI32(w.y, r.tremoloOut)))
               /\ (w.pc = "w236" /\ w.side = 1) =>
                     v.x = Shr16(MulI32(w.dry, r.DryLevel))
               /\ (w.pc = "w237" /\ w.side = 1) =>
                     v.pc = "send" /\ v.val = AddI32(w.x, WetOut(r))
               /\ w.pc = "send" => SendsTwice(i) ]_vars

\* C13 witness: a phase-modulation iteration after the tick: left's sawtooth
\* at phase 30086 gave -2682, the right sawtooth was read at
\* -2682 + 0x8000 = 30086 and gave -2682 again, while right's stored phase
\* is still 0.
C13_Witness ==
    /\ wrk[0].pc = "send" /\ wrk[0].mode = PairPM /\ wrk[0].sent = 1
    /\ Ch[0].Phase = 30086 /\ Ch[1].Phase = 0 /\ Ch[1].period > 0
    /\ wrk[0].lwave = 30086 /\ wrk[0].val = -2682

\* C14: an amplitude-modulation iteration advances both phases, each by its
\* own period and length, and sends twice (left output * right output) >> 16,
\* which is the exact product scaled down when both outputs are signed
\* 16-bit values.
C14_AMProduct ==
    [][ \A i \in Pairs : (wrk[i].mode = PairAM /\ WorkerMoves(i)) =>
           LET w == wrk[i]         v == wrk'[i]
               c == Ch[Callee(i)]
               ret == AddI32(w.x, WetOut(c))
           IN  /\ Advances(i)
               /\ w.pc = "phaseLen" =>
                     /\ Ch'[2 * i + 1 - w.side].Phase = Ch[2 * i + 1 - w.side].Phase
                     /\ v.pc = "call" <=> w.side = 1
               /\ w.pc = "call" => v.ph = c.Phase
               /\ w.pc = "w236" => v.x = Shr16(MulI32(w.dry, c.DryLevel))
               /\ (w.pc = "w237" /\ w.side = 0) =>
                     v.pc = "call" /\ v.side = 1 /\ v.lwave = ret
               /\ (w.pc = "w237" /\ w.side = 1) =>
                     /\ v.pc = "send" /\ v.val = Shr16(MulI32(w.lwave, ret))
                     /\ (InI16(w.lwave) /\ InI16(ret)) =>
                           v.val = (w.lwave * ret) \div W16
               /\ w.pc = "send" => SendsTwice(i) ]_vars

\* C14 witness: an amplitude-modulation iteration after the tick, the
\* constant waves at 32767 and 16383: the value to send twice is 8191, and
\* the two phases have advanced by different periods.
C14_Witness ==
    /\ wrk[0].pc = "send" /\ wrk[0].mode = PairAM /\ wrk[0].sent = 1
    /\ wrk[0].lwave = 32767 /\ wrk[0].val = 8191
    /\ Ch[0].Phase = 30086 /\ Ch[1].Phase > 0 /\ Ch[1].Phase # Ch[0].Phase

\* The worker of pair i is in a call of wave of a Stereo iteration, at pc.
StereoWaveAt(i, pc) == WAt(i, pc) /\ ~Named(wrk[i].mode)

\* Filter width 1, delay 0, no feedback, and a history of 16-bit samples.
PlainDelay(c) ==
    /\ c.FilterLen = 1 /\ c.delay = 0 /\ c.Feedback = 0
    /\ \A k \in DOMAIN c.hist : InI16(c.hist[k])

\* C15 as stated: with filter width 1 and delay 0 the wet value of a call of
\* wave is the dry sample of that same call, and the output is that sample
\* scaled by the dry level plus the same sample scaled by the wet level.
C15_WetIsSameSample ==
    [][ \A i \in Pairs : PlainDelay(Ch[Callee(i)]) =>
           LET c == Ch[Callee(i)] IN
           /\ StereoWaveAt(i, "w231trem") => c.delayAvg = wrk'[i].dry
           /\ StereoWaveAt(i, "w236") =>
                 wrk'[i].x = Shr16(MulI32(wrk[i].dry, c.DryLevel))
           /\ StereoWaveAt(i, "w237") =>
                 wrk'[i].val =
                    AddI32(wrk[i].x, Shr16(MulI32(wrk[i].dry, c.WetLevel))) ]_vars

\* C15 amended: with filter width 1 and delay 0 (no feedback, 16-bit
\* samples) the wet value of a call of wave is the sample stored by the
\* call before it (0 in the first); the call stores its dry sample in the
\* history; and the output is the dry sample scaled by the dry level plus
\* that earlier sample scaled by the wet level.
C15_WetIsPreviousSample ==
    [][ \A i \in Pairs : PlainDelay(Ch[Callee(i)]) =>
           LET c == Ch[Callee(i)]
               d == Ch'[Callee(i)]
           IN  /\ StereoWaveAt(i, "w227") =>
                     d.delayAvg = HistAt(c, U16(c.histHead - 1))
               /\ StereoWaveAt(i, "w231") =>
                     wrk'[i].x = waveGen(c.Wave, wrk[i].ph)
               /\ StereoWaveAt(i, "w231vol") =>
                     wrk'[i].y = c.Vol /\ wrk'[i].x = wrk[i].x
               /\ StereoWaveAt(i, "w231trem") =>
                     wrk'[i].dry = Shr16(MulI32(wrk[i].x,
                                                AddI32(wrk[i].y, c.tremoloOut)))
               /\ StereoWaveAt(i, "w234") =>
                     /\ HistAt(d, c.histHead) = wrk[i].dry
                     /\ d.histHead = U16(c.histHead + 1)
               /\ StereoWaveAt(i, "w236") =>
                     wrk'[i].x = Shr16(MulI32(wrk[i].dry, c.DryLevel))
               /\ StereoWaveAt(i, "w237") =>
                     wrk'[i].val =
                        AddI32(wrk[i].x,
                               Shr16(MulI32(HistAt(c, U16(c.histHead - 2)),
                                            c.WetLevel))) ]_vars

\* C15 witness: the left channel of the Stereo pair after two iterations
\* past the tick: the sawtooth gave -2682 and now 27404; the wet value is
\* -2682 and the output 27404 + (-2682 >> 1).
C15_Witness ==
    /\ wrk[0].pc = "send" /\ wrk[0].sent = 0 /\ ~Named(wrk[0].mode)
    /\ Ch[0].WetLevel = HalfScale /\ Ch[0].Phase = 60172
    /\ Ch[0].delayAvg = -2682 /\ wrk[0].val = 27404 - 1341

\* C16: under weak fairness of the control loop and of every worker, with a
\* caller that keeps receiving, the sample counter keeps growing: it reaches every value up to the bound the
\* model follows it to.
C16_CounterGrows == <>(m.count = MaxCount)

\* C16, the part about blocking: while no goroutine has panicked and frames
\* remain to be produced, some goroutine is not blocked on a queue, or the
\* control loop waits for the caller to receive.
C16_NoQueueDeadlock ==
    fault = "none" /\ ctl.pc # "start" /\ ULt(m.count, MaxCount)
        => \/ ControlReady
           \/ \E i \in Pairs : WorkerReady(i)
           \/ ctl.pc \in {"emitL", "emitR"}

\* C16, the part about progress, apart from panics: a session either runs
\* into a division by zero or produces every frame.
C16_GrowsUnlessPanic == <>(fault # "none" \/ m.count = MaxCount)

\* The callback runs one of the two statements of a call of OnPair.
OnPairStmt ==
    CtlAt("callback") /\ ctl.prog # << >> /\ Head(ctl.prog).t = "op"

\* What one invocation of op leaves in its field of channel c, when it is
\* op's k-th invocation.
OpResult(op, c, k) ==
    CASE op.k = "set"   -> op.v
      [] op.k = "add"   -> Plus(op.f, Ch[c][op.f], op.v)
      [] op.k = "stamp" -> k

\* C17: a callback that calls OnPair(i, op) runs two statements: the first
\* is op's first invocation and is made on channel 2i, the second is its
\* second invocation and is made on channel 2i+1; each changes what one
\* invocation of op changes, in that channel only.
C17_OnPairLeftThenRight ==
    [][ /\ SeqInvoked => Len(ctl'.prog) \in {0, 2}
        /\ OnPairStmt =>
              LET w == Head(ctl.prog)
                  k == 3 - Len(ctl.prog)
                  i == 0
              IN  /\ k \in {1, 2}
                  /\ w.i = 2 * i + (k - 1)
                  /\ k = 1 => ctl'.prog[1].v = w.v
                  /\ Ch'[w.i][w.f] = OpResult(w.v, w.i, k)
                  /\ \A f \in DOMAIN Ch[w.i] \ {w.f} : Ch'[w.i][f] = Ch[w.i][f]
                  /\ \A c \in Chs \ {w.i} : Ch'[c] = Ch[c] ]_vars

\* C17 witness: the three callbacks have run: the notes of the pair are an
\* octave up, the counting closure wrote 1 to the left channel and 2 to the
\* right one, and the volumes are down from 50% to 0.
C17_Witness ==
    /\ g.seqCalls = 3 /\ ctl.pc = "recvL"
    /\ Ch[0].Note = 72 * W16 /\ Ch[1].Note = 72 * W16
    /\ Ch[0].Tremolo = 1 /\ Ch[1].Tremolo = 2
    /\ Ch[0].MVol = 0 /\ Ch[1].MVol = 0

\* The case of the envelope a tick selects for channel c, by the priority
\* the claim gives.
EnvelopeCase(c) ==
    IF c.Release < 1 THEN "idle"
    ELSE IF ~c.NoteOn THEN "release"
    ELSE IF c.EnvPos < DivI32(c.Peak, c.Attack) THEN "attack"
    ELSE IF c.Vol > c.Sustain THEN "decay"
    ELSE "sustain"

\* The volume the selected case leaves.
CaseVol(c, case) ==
    CASE case = "idle"    -> c.Vol
      [] case = "release" -> IF SubI32(c.Vol, c.Release) < 0 THEN 0
                             ELSE SubI32(c.Vol, c.Release)
      [] case = "attack"  -> IF AddI32(c.Vol, c.Attack) > FullScale THEN FullScale
                             ELSE AddI32(c.Vol, c.Attack)
      [] case = "decay"   -> IF SubI32(c.Vol, c.Decay) < 0 THEN 0
                             ELSE SubI32(c.Vol, c.Decay)
      [] case = "sustain" -> c.Vol

\* C18: every pass of a tick over a channel applies the one envelope case
\* the priority selects from the channel's fields as they are at that tick,
\* and then adds 1 to EnvPos whichever case that was.
C18_OneCasePerTick ==
    [][ /\ CtlAt("slides") =>
              /\ Ch'[ctl.ti].Vol = CaseVol(Ch[ctl.ti], EnvelopeCase(Ch[ctl.ti]))
              /\ Ch'[ctl.ti].EnvPos = Ch[ctl.ti].EnvPos
              /\ ctl'.pc = "tremolo"
        /\ CtlAt("tremolo") =>
              /\ Ch'[ctl.ti].EnvPos = AddI32(Ch[ctl.ti].EnvPos, 1)
              /\ Ch'[ctl.ti].Vol = Ch[ctl.ti].Vol
        /\ \A c \in Chs : Ch'[c].Vol # Ch[c].Vol =>
              \/ ctl.pc = "slides" /\ ctl.ti = c
              \/ ctl.pc = "callback" ]_vars

\* C18 witness: after the third tick of the session with a channel
\* attacking and one sustained: the left one attacked to 40000 and to the
\* cap and then decayed, the right one kept its 50.
C18_Witness ==
    /\ ctl.pc = "tickend" /\ g.ticks = 2
    /\ Ch[0].Attack = 40000 /\ Ch[0].Vol = FullScale - 30000
    /\ Ch[1].Vol = 50
    /\ \A c \in Chs : Ch[c].EnvPos = 3

\* The envelope step of a tick over channel c, the first since the
\* sequencer turned its note-on flag on again.
RetrigTick(c) ==
    /\ CtlAt("slides") /\ ctl.ti = c
    /\ c \in g.retrig \cup g.retrigMore
    /\ Ch[c].Release >= 1 /\ Ch[c].Attack >= 1

\* Vol rises by the attack rate, capped at full scale.
AttackStep(c) == Ch'[c].Vol = CaseVol(Ch[c], "attack")

\* C19: at the tick after the note-on flag is set again, with no other
\* field written, the envelope attacks: Vol rises by the attack rate,
\* capped at full scale.
C19_RetriggerResumesAttack ==
    [][\A c \in Chs : RetrigTick(c) /\ c \in g.retrig => AttackStep(c)]_vars

\* What the code does at that tick.  Line 180 counts EnvPos at every tick
\* and no line sets it back when the note comes on, so the ticks the note
\* spent released are in it: it is the number of ticks since the mixer was
\* made.  Line 172 attacks only while that count is below Peak/Attack; past
\* it the tick decays or sustains, and Vol does not rise.
C19_RetriggerResumesBelowPeak ==
    [][\A c \in Chs : RetrigTick(c) =>
          /\ c \in g.retrig => Ch[c].EnvPos = g.ticks
          /\ IF Ch[c].EnvPos < DivI32(Ch[c].Peak, Ch[c].Attack)
             THEN AttackStep(c)
             ELSE Ch'[c].Vol <= Ch[c].Vol]_vars

\* C20 as stated: after the two assertions of a pass of a tick over a
\* channel both request slots are empty.
C20_RequestsResolvedOnce ==
    [][ CtlAt("delayticks") =>
           Ch'[ctl.ti].DelayTicks = Nil /\ Ch'[ctl.ti].DelayNote = Nil ]_vars

\* C20, amended: a pass of a tick over a channel resolves and empties the
\* slot DelayNote when it holds an int32 and then the slot DelayTicks when
\* it holds a uint32 (the delay is the length of the note in samples when
\* that fits 16 bits, and the length of the ticks, in 16 bits); a slot that
\* holds a value of another type is left as it is and has no effect;
\* nothing else changes the delay.
C20_TypedRequestsResolvedOnce ==
    [][ /\ CtlAt("delaynote") =>
              LET c == Ch[ctl.ti]
                  d == Ch'[ctl.ti]
              IN  IF Holds(c.DelayNote, "int32")
                  THEN LET q == DivTrunc(m.srate, NoteOf(c.DelayNote[2]))
                       IN  /\ d.delay \in 0 .. (W16 - 1)
                           /\ q.ok => d.delay = q.v
                           /\ d.DelayNote = Nil
                           /\ d.DelayTicks = c.DelayTicks
                  ELSE /\ d.delay = c.delay
                       /\ d.DelayNote = c.DelayNote
                       /\ d.DelayTicks = c.DelayTicks
        /\ CtlAt("delayticks") =>
              LET c == Ch[ctl.ti]
                  d == Ch'[ctl.ti]
                  ticks == Holds(c.DelayTicks, "uint32")
              IN  /\ d.delay = IF ticks THEN DelayOfTicks(c.DelayTicks[2], m)
                               ELSE c.delay
                  /\ d.DelayTicks = IF ticks THEN Nil ELSE c.DelayTicks
                  /\ d.DelayNote = c.DelayNote
        /\ \A c \in Chs : Ch'[c].delay # Ch[c].delay =>
              ctl.pc \in {"delaynote", "delayticks"} /\ ctl.ti = c ]_vars

\* C20 witness: after the second tick of the session whose first callback
\* asked for the note 0 on the left channel and stored an int in the right
\* one's DelayTicks: the left channel has the note's 5 samples and an empty
\* slot, the right one still has no delay and the int in its slot.
C20_Witness ==
    /\ ctl.pc = "tickend" /\ g.ticks = 1
    /\ Ch[0].delay = 5 /\ Ch[0].DelayNote = Nil
    /\ Ch[1].delay = 0 /\ Ch[1].DelayTicks = Dyn("int", 2)

\* The sum of (entry / FilterLen) over the n history entries that end at
\* position last.
RECURSIVE SumOver(_, _, _)
SumOver(c, last, n) ==
    IF n = 0 THEN 0
    ELSE DivI32(HistAt(c, U16(last)), c.FilterLen) + SumOver(c, last - 1, n - 1)

\* The rectangular average the claim describes, for a channel as a call of
\* wave leaves it: the window of FilterLen entries that ends delay+1
\* positions before the entry the call wrote (at histHead - 1).
WindowAvg(c) == SumOver(c, c.histHead - 1 - c.delay - 1, c.FilterLen)

\* A call of wave on channel c has stored its sample.
WaveRan(c) == Ch'[c].histHead # Ch[c].histHead

\* C21: after every call of wave the running average of the channel is the
\* rectangular average over its window (the averages of this session stay
\* far from the clamp).
C21_RunningAverageIsWindow ==
    [][\A c \in Chs : WaveRan(c) => Ch'[c].delayAvg = WindowAvg(Ch'[c])]_vars

\* C21, for the calls made with the delay and the filter width the channel
\* had when its history was empty: there the running average is the
\* window's.
C21_WindowWhileUnchanged ==
    [][\A c \in Chs : WaveRan(c) /\ Ch[c].delay = 0 /\ Ch[c].FilterLen = 1
            => Ch'[c].delayAvg = WindowAvg(Ch'[c])]_vars

\* Whether the worker stands between the two updates of the running average
\* of channel c (lines 226 and 227-228).
MidUpdate(c) == wrk[c \div 2].pc = "w227" /\ Callee(c \div 2) = c

\* C22: in every channel the running average is within the signed 16-bit
\* range once wave has updated it, and so are the wet signal fed back and
\* the wet signal mixed into the output.
C22_AverageClamped ==
    \A c \in Chs : ~MidUpdate(c) =>
        /\ InI16(Ch[c].delayAvg)
        /\ InI16(WetBack(Ch[c]))
        /\ InI16(WetOut(Ch[c]))

\* C22 witness: after three iterations with feedback at 100%: the history
\* entries have grown past 16 bits (65534 on the left, -65534 on the
\* right), and the averages sit at the two ends of the range.
C22_Witness ==
    /\ Ch[0].Feedback = FullScale
    /\ Ch[0].histHead = 3 /\ Ch[1].histHead = 3
    /\ HistAt(Ch[0], 1) = 65534 /\ Ch[0].delayAvg = 32767
    /\ HistAt(Ch[1], 1) = -65534 /\ Ch[1].delayAvg = -32768

\* C23: at the top of every step of the control loop count <= nextTick
\* (as uint32), so that the test count == nextTick comes true again.
C23_NextTickNotBehind ==
    ctl.pc = "top" => ~ULt(m.nextTick, m.count)

\* C23, where it fails: the counter is past nextTick only after a tick
\* whose interval 60*srate/BPM/TickRate was 0.
C23_BehindOnlyAtIntervalZero ==
    ctl.pc = "top" /\ ULt(m.nextTick, m.count) => TickInterval(m) = 0

\* The whole number a stored uint32 stands for.
UnsignedOf(n) ==
    IF n >= 0 THEN BigOf(n) ELSE BAdd(BigOf((n + MaxI32) + 1), << 0, 0, 8 >>)

\* C24 as stated: a pass of a tick over a channel ends with its period
\* equal to trunc((Len div srate) * f), f the frequency of the note the
\* tick left plus the vibrato's output of that tick, whatever the length,
\* the rate and the note.
C24_PeriodIsTruncatedProduct ==
    [][ CtlAt("period") =>
           \A p \in { FMul(FUint32(UDiv(Ch[ctl.ti].Len, m.srate)),
                           NoteOf(AddI32(Ch[ctl.ti].Note, ctl.vib))) } :
              /\ p.k = "fin"
              /\ UnsignedOf(Ch'[ctl.ti].period) = Whole(p) ]_vars

\* C24 amended: the period is trunc((Len div srate) * f) where that
\* product is finite and below 2^32 (line 209 converts anything else to a
\* uint32 the language does not define); so, for a note whose frequency is
\* finite, it is 0 when the sample rate exceeds Len, and it is the whole Hz
\* of f when Len/2 < srate <= Len and those are below 2^32.  Nothing but
\* that line of a pass over the channel changes its period.
C24_PeriodFromLenOverRate ==
    [][ /\ CtlAt("delaynote") =>
              ctl'.vib = LfoOut(Ch[ctl.ti].VibratoWave, Ch'[ctl.ti].VibratoPhase,
                                Ch[ctl.ti].Vibrato)
        /\ CtlAt("period") =>
              LET c == Ch[ctl.ti]
                  d == Ch'[ctl.ti]
                  f == NoteOf(AddI32(c.Note, ctl.vib))
                  r == MulTrunc(UDiv(c.Len, m.srate), f)
              IN  /\ r.ok => d.period = r.v
                  /\ (ULt(c.Len, m.srate) /\ f.k = "fin") => d.period = 0
                  /\ (~ULt(c.Len, m.srate) /\ UDiv(c.Len, m.srate) = 1
                        /\ f.k = "fin" /\ BitLen(Whole(f)) <= 32) =>
                         d.period = Low32(Whole(f))
        /\ \A c \in Chs : Ch'[c].period # Ch[c].period =>
              ctl.pc = "period" /\ ctl.ti = c ]_vars

\* C24 witness: after the third tick: 0 for the wave shorter than the rate
\* (at A5, 880 Hz), 440 for the wave of 90 points at A4.
C24_Witness ==
    /\ ctl.pc = "tickend" /\ g.ticks = 2
    /\ Ch[0].Note = 81 * W16 /\ Ch[0].Len = 40 /\ Ch[0].period = 0
    /\ Ch[1].Note = 69 * W16 /\ Ch[1].Len = 90 /\ Ch[1].period = 440

=============================================================================
